---------------------------- MODULE Spec2Model ----------------------------
(***************************************************************************)
(* A model of the composite device controller of InputPlumber              *)
(* (src/input/composite_device/mod.rs): the command loop, the event        *)
(* pipeline (capability-map translation, profile translation, emission),   *)
(* the intercept state machine and the timers the handlers spawn.          *)
(*                                                                         *)
(* The controller is a single task that owns all of its fields; every      *)
(* command is handled to completion.  A handler is modelled by a pure      *)
(* operator on a record of the controller's fields; the record also        *)
(* carries what the handler did to the outside: the tasks it spawned       *)
(* (`spawned`), the events it handed to target channels (`sent`) and       *)
(* whether it returned Err (`err`).                                        *)
(***************************************************************************)
EXTENDS Integers, Sequences, FiniteSets, Bags, TLC

(***************************************************************************)
(* Capabilities.  A capability is a string; the sets below give its class  *)
(* as matched by handle_event.                                             *)
(***************************************************************************)
GamepadButtons == {"Guide", "LeftBumper", "RightBumper", "South", "East", "North", "QuickAccess"}
KeyboardKeys == {"KeyA", "KeyB", "KeyC"}
GamepadAxes == {"LeftStick"}
DBusCaps == {"DBusUi"}
NotImplemented == "NotImplemented"

\* Keyboard(_), Gamepad::Button(_) and Mouse::Button(_): the classes that
\* handle_event passes through is_new_active_event and is_intercept_event.
IsButton(cap) == cap \in GamepadButtons \cup KeyboardKeys

IsDBus(cap) == cap \in DBusCaps

\* NativeEvent::new(cap, value).  The value is 1 (Bool(true), a deflected
\* axis) or 0 (Bool(false), a centred axis).
NativeEvent(cap, value) == [cap |-> cap, value |-> value]

as_capability(event) == event.cap

get_value(event) == event.value

\* NativeEvent::pressed: Bool(true) or a nonzero axis value.
pressed(event) == event.value # 0

BoolValue(b) == IF b THEN 1 ELSE 0

(***************************************************************************)
(* Timer constants of the handlers, in milliseconds.                       *)
(***************************************************************************)
DebounceMs == 4
ChordStaggerMs == 80
TargetStopMs == 80

(***************************************************************************)
(* Sequence helpers.                                                       *)
(***************************************************************************)
Range(s) == {s[i] : i \in DOMAIN s}

Contains(s, x) == \E i \in DOMAIN s : s[i] = x

\* Vec::iter().position(|r| r == x).unwrap()
Position(s, x) == CHOOSE i \in DOMAIN s : s[i] = x /\ \A j \in 1..(i - 1) : s[j] # x

\* Vec::remove(idx)
RemoveAt(s, idx) == [i \in 1..(Len(s) - 1) |-> IF i < idx THEN s[i] ELSE s[i + 1]]

Reverse(s) == [i \in 1..Len(s) |-> s[Len(s) + 1 - i]]


(***************************************************************************)
(* Option<T>: <<>> is None, <<x>> is Some(x).                              *)
(***************************************************************************)
None == <<>>

Some(x) == <<x>>

is_some(o) == Len(o) = 1

unwrap(o) == o[1]

(***************************************************************************)
(* Commands of the controller queue (enum Command) that timers send.       *)
(***************************************************************************)
WriteEventCmd(event) == [type |-> "WriteEvent", event |-> event]

HandleEventCmd(event) == [type |-> "HandleEvent", event |-> event]

RemoveRecentEventCmd(cap) == [type |-> "RemoveRecentEvent", event |-> NativeEvent(cap, 0)]

SetTargetDevicesCmd(device_types) ==
    [type |-> "SetTargetDevices", device_types |-> device_types]

\* tokio::spawn(async move { sleep(delay).await; tx.send(cmd).await })
Task(cmd, delay) == [cmd |-> cmd, delay |-> delay]

VARIABLES
    capability_map,              \* Option<CapabilityMap>
    translatable_capabilities,   \* Vec<Capability>
    device_profile,              \* Option<String>
    device_profile_config_map,   \* HashMap<Capability, Vec<ProfileMapping>>
    translatable_active_inputs,  \* Vec<Capability>
    translated_recent_events,    \* HashSet<Capability>
    emitted_mappings,            \* HashMap<String, CapabilityMapping>
    intercept_mode,              \* InterceptMode
    intercept_activation_caps,   \* Vec<Capability>
    intercept_mode_target_cap,   \* Capability
    intercept_active_inputs,     \* Vec<Capability>
    active_inputs,               \* Vec<Capability>
    source_devices_blocked,      \* HashSet<String>
    target_devices,              \* keys of HashMap<String, Sender<TargetCommand>>
    target_dbus_devices,         \* keys of HashMap<String, Sender<TargetCommand>>
    target_devices_queued,       \* HashSet<String>
    source_devices,              \* keys of HashMap<String, Sender<SourceCommand>>
    source_devices_discovered,   \* Vec<SourceDevice>, by id
    source_devices_used,         \* Vec<String>
    source_device_paths,         \* Vec<String>
    source_device_tasks,         \* JoinSet<()>: the ids whose tasks were spawned
    dbus_path,                   \* Option<String>
    ff_effect_ids,               \* BTreeSet<i16>
    ff_effect_id_source_map,     \* HashMap<i16, HashMap<String, i16>>
    running,                     \* TRUE while run() is inside its 'main loop
    timers,                      \* spawned tasks still sleeping: a bag of [cmd, rem]
    queue,                       \* commands sent by woken tasks, not yet received
    closed_targets,              \* targets whose command channel is closed
    closed_sources,              \* sources whose command channel is closed
    full_sources,                \* sources whose command channel is full
    stalled,                     \* the output event whose handler waits in a send
    attaching,                   \* targets the manager attached and has yet to announce
    last_cmd,                    \* the command the loop handled in the last step
    sent,                        \* what that command handed to target channels
    spawned,                     \* the tasks that command spawned
    out,                         \* what else that command did to the outside
    recording,                   \* whether this run records the three logs below
    script,                      \* the commands received from outside so far
    normal_log,                  \* the events normal targets received, in order
    dbus_log,                    \* the events DBus targets received, in order
    shutdown,                    \* what run() did after it left the 'main loop
    ended,                       \* the source tasks whose source_device.run() returned
    backlog                      \* commands in the channel besides those of `queue`

fields == <<capability_map, translatable_capabilities, device_profile,
            device_profile_config_map, translatable_active_inputs,
            translated_recent_events, emitted_mappings, intercept_mode,
            intercept_activation_caps, intercept_mode_target_cap,
            intercept_active_inputs, active_inputs, source_devices_blocked,
            target_devices, target_dbus_devices, target_devices_queued,
            source_devices, source_devices_discovered, source_devices_used,
            source_device_paths, source_device_tasks, dbus_path, ff_effect_ids,
            ff_effect_id_source_map>>

logs == <<recording, script, normal_log, dbus_log, shutdown>>

joining == <<ended, backlog>>

vars == <<fields, running, timers, queue, closed_targets, closed_sources,
          full_sources, stalled,
          attaching, last_cmd, sent, spawned, out, logs, joining>>

(***************************************************************************)
(* `self`: the controller's fields as a record, with the handler's         *)
(* outputs.  `iter` is the part of a target map that a HashMap iteration   *)
(* visits before it meets a closed channel.                                *)
(***************************************************************************)
Self(iter) ==
    [capability_map |-> capability_map,
     translatable_capabilities |-> translatable_capabilities,
     device_profile |-> device_profile,
     device_profile_config_map |-> device_profile_config_map,
     translatable_active_inputs |-> translatable_active_inputs,
     translated_recent_events |-> translated_recent_events,
     emitted_mappings |-> emitted_mappings,
     intercept_mode |-> intercept_mode,
     intercept_activation_caps |-> intercept_activation_caps,
     intercept_mode_target_cap |-> intercept_mode_target_cap,
     intercept_active_inputs |-> intercept_active_inputs,
     active_inputs |-> active_inputs,
     source_devices_blocked |-> source_devices_blocked,
     target_devices |-> target_devices,
     target_dbus_devices |-> target_dbus_devices,
     target_devices_queued |-> target_devices_queued,
     source_devices |-> source_devices,
     source_devices_discovered |-> source_devices_discovered,
     source_devices_used |-> source_devices_used,
     source_device_paths |-> source_device_paths,
     source_device_tasks |-> source_device_tasks,
     dbus_path |-> dbus_path,
     ff_effect_ids |-> ff_effect_ids,
     ff_effect_id_source_map |-> ff_effect_id_source_map,
     iter |-> iter,
     spawned |-> <<>>,
     sent |-> <<>>,
     replies |-> <<>>,
     to_sources |-> {},
     to_manager |-> <<>>,
     stopped |-> {},
     slept |-> 0,
     attached |-> {},
     err |-> FALSE,
     brk |-> FALSE,
     ret |-> FALSE]

Return(s, value) == [s EXCEPT !.ret = value]

Spawn(s, cmd, delay) == [s EXCEPT !.spawned = Append(@, Task(cmd, delay))]

(***************************************************************************)
(* write_event: the emission rules.                                        *)
(***************************************************************************)
\* for (_, target) in &map { target.send(event.clone()).await?; }
\* Every entry receives the event, unless the iteration meets a closed
\* channel: then the entries visited before it have received the event and
\* the handler returns Err.
SendToAll(s, map, event) ==
    LET failed == map \cap closed_targets # {}
        reached == IF failed THEN (map \ closed_targets) \cap s.iter ELSE map
    IN  [s EXCEPT !.sent = Append(@, [event |-> event, to |-> reached,
                                      mode |-> s.intercept_mode]),
                  !.err = failed]

WriteEventOmitsAlways(s, event) ==
    IF IsDBus(as_capability(event))
    THEN SendToAll(s, s.target_dbus_devices, event)
    ELSE SendToAll(s, s.target_devices, event)

WriteEventBroadcasts(s, event) ==
    SendToAll(s, s.target_devices \cup s.target_dbus_devices, event)

write_event(s, event) ==
    IF IsDBus(as_capability(event))
    THEN SendToAll(s, s.target_dbus_devices, event)
    ELSE IF s.intercept_mode = "Always"
         THEN SendToAll(s, s.target_dbus_devices, event)
         ELSE SendToAll(s, s.target_devices, event)

(***************************************************************************)
(* write_chord_events: one task per event, staggered by 80 ms.             *)
(***************************************************************************)
RECURSIVE write_chord_events_from(_, _, _, _)
write_chord_events_from(s, events, i, sleep_time) ==
    IF i > Len(events)
    THEN s
    ELSE write_chord_events_from(Spawn(s, WriteEventCmd(events[i]), sleep_time),
                                 events, i + 1, sleep_time + ChordStaggerMs)

write_chord_events(s, events) == write_chord_events_from(s, events, 1, 0)

(***************************************************************************)
(* The new-active filter.                                                  *)
(***************************************************************************)
IsNewActiveEventPassesEveryRelease(s, cap, is_pressed) ==
    LET active == Contains(s.active_inputs, cap)
    IN  IF is_pressed /\ ~active
        THEN Return([s EXCEPT !.active_inputs = Append(@, cap)], TRUE)
        ELSE IF ~is_pressed /\ active
             THEN Return([s EXCEPT !.active_inputs =
                              RemoveAt(@, Position(@, cap))], TRUE)
             ELSE Return(s, TRUE)

IsNewActiveEventKeepsReleased(s, cap, is_pressed) ==
    LET active == Contains(s.active_inputs, cap)
    IN  IF is_pressed /\ ~active
        THEN Return([s EXCEPT !.active_inputs = Append(@, cap)], TRUE)
        ELSE IF ~is_pressed /\ ~active
             THEN Return(s, FALSE)
             ELSE Return(s, TRUE)

IsNewActiveEventPushesEveryPress(s, cap, is_pressed) ==
    LET active == Contains(s.active_inputs, cap)
    IN  IF is_pressed
        THEN Return([s EXCEPT !.active_inputs = Append(@, cap)], TRUE)
        ELSE IF ~active
             THEN Return(s, FALSE)
             ELSE Return([s EXCEPT !.active_inputs =
                              RemoveAt(@, Position(@, cap))], TRUE)

is_new_active_event(s, cap, is_pressed) ==
    LET active == Contains(s.active_inputs, cap)
    IN  IF is_pressed /\ ~active
        THEN Return([s EXCEPT !.active_inputs = Append(@, cap)], TRUE)
        ELSE IF ~is_pressed /\ ~active
             THEN Return(s, FALSE)
             ELSE IF ~is_pressed /\ active
                  THEN Return([s EXCEPT !.active_inputs =
                                   RemoveAt(@, Position(@, cap))], TRUE)
                  ELSE Return(s, TRUE)

set_intercept_mode(s, mode) == [s EXCEPT !.intercept_mode = mode]

set_intercept_activation(s, activation_caps, target_cap) ==
    [s EXCEPT !.intercept_activation_caps = activation_caps,
              !.intercept_mode_target_cap = target_cap]

(***************************************************************************)
(* The intercept filter.                                                   *)
(***************************************************************************)
ShouldHoldOnlyFollowOn(s, cap) == Len(s.intercept_active_inputs) # 0

should_hold_intercept_input(s, cap) ==
    IF Len(s.intercept_activation_caps) = 0
    THEN FALSE
    ELSE IF Len(s.intercept_active_inputs) = 0 /\ cap = s.intercept_activation_caps[1]
         THEN TRUE
         ELSE Len(s.intercept_active_inputs) # 0

InterceptSingleKeepsMode(s, event, is_pressed, intercept) ==
    LET cap == as_capability(event)
    IN  IF intercept /\ Contains(s.intercept_activation_caps, cap) /\ is_pressed
        THEN IF Contains(s.intercept_active_inputs, cap)
             THEN Return(s, TRUE)
             ELSE LET s1 == [s EXCEPT !.intercept_active_inputs = Append(@, cap)]
                      target_event == NativeEvent(s1.intercept_mode_target_cap,
                                                  get_value(event))
                  IN  Return(write_chord_events(s1, <<target_event>>), TRUE)
        ELSE Return(s, FALSE)

is_intercept_event_single(s, event, is_pressed, intercept) ==
    LET cap == as_capability(event)
    IN  IF intercept /\ Contains(s.intercept_activation_caps, cap) /\ is_pressed
        THEN IF Contains(s.intercept_active_inputs, cap)
             THEN Return(s, TRUE)
             ELSE LET s1 == [s EXCEPT !.intercept_active_inputs = Append(@, cap)]
                      s2 == set_intercept_mode(s1, "Always")
                      target_event == NativeEvent(s2.intercept_mode_target_cap,
                                                  get_value(event))
                  IN  Return(write_chord_events(s2, <<target_event>>), TRUE)
        ELSE IF /\ Contains(s.intercept_activation_caps, cap)
                /\ Contains(s.intercept_active_inputs, cap)
                /\ ~is_pressed
             THEN LET s1 == [s EXCEPT !.intercept_active_inputs =
                                          RemoveAt(@, Position(@, cap))]
                      s2 == IF Contains(s1.active_inputs, cap)
                            THEN [s1 EXCEPT !.active_inputs =
                                                RemoveAt(@, Position(@, cap))]
                            ELSE s1
                      target_event == NativeEvent(cap, get_value(event))
                  IN  Return(write_chord_events(s2, <<target_event>>), TRUE)
             ELSE Return(s, FALSE)

\* for c in intercept_activation_caps.clone() { remove c from active_inputs }
RECURSIVE remove_activation_caps(_, _)
remove_activation_caps(inputs, caps) ==
    IF Len(caps) = 0
    THEN inputs
    ELSE remove_activation_caps(
             IF Contains(inputs, Head(caps))
             THEN RemoveAt(inputs, Position(inputs, Head(caps)))
             ELSE inputs,
             Tail(caps))

InterceptMultiKeepsPartialMatch(s, event, is_pressed, intercept) ==
    LET cap == as_capability(event)
    IN  IF intercept /\ Contains(s.intercept_activation_caps, cap)
        THEN IF is_pressed /\ should_hold_intercept_input(s, cap)
             THEN IF Contains(s.intercept_active_inputs, cap)
                  THEN Return(s, TRUE)
                  ELSE LET s1 == [s EXCEPT !.intercept_active_inputs = Append(@, cap)]
                       IN  IF Len(s1.intercept_active_inputs)
                                  # Len(s1.intercept_activation_caps)
                           THEN Return(s1, TRUE)
                           ELSE LET s2 == [s1 EXCEPT
                                              !.active_inputs = remove_activation_caps(
                                                  @, s1.intercept_activation_caps),
                                              !.intercept_active_inputs = <<>>]
                                    s3 == set_intercept_mode(s2, "Always")
                                    chord == <<NativeEvent(s3.intercept_mode_target_cap, 1),
                                               NativeEvent(s3.intercept_mode_target_cap, 0)>>
                                IN  Return(write_chord_events(s3, chord), TRUE)
             ELSE IF ~is_pressed /\ Contains(s.intercept_active_inputs, cap)
                  THEN LET s1 == [s EXCEPT !.intercept_active_inputs =
                                               RemoveAt(@, Position(@, cap))]
                           chord == <<NativeEvent(cap, 1), NativeEvent(cap, 0)>>
                       IN  Return(write_chord_events(s1, chord), TRUE)
                  ELSE Return(s, FALSE)
        ELSE IF Len(s.intercept_active_inputs) # 0 /\ is_pressed
             THEN LET held == Append(s.intercept_active_inputs, cap)
                      chord == [i \in 1..Len(held) |-> NativeEvent(held[i], 1)]
                      s1 == write_chord_events(s, chord)
                  IN  Return(s1, TRUE)
             ELSE Return(s, FALSE)

is_intercept_event_multi(s, event, is_pressed, intercept) ==
    LET cap == as_capability(event)
    IN  IF intercept /\ Contains(s.intercept_activation_caps, cap)
        THEN IF is_pressed /\ should_hold_intercept_input(s, cap)
             THEN IF Contains(s.intercept_active_inputs, cap)
                  THEN Return(s, TRUE)
                  ELSE LET s1 == [s EXCEPT !.intercept_active_inputs = Append(@, cap)]
                       IN  IF Len(s1.intercept_active_inputs)
                                  # Len(s1.intercept_activation_caps)
                           THEN Return(s1, TRUE)
                           ELSE LET s2 == [s1 EXCEPT
                                              !.active_inputs = remove_activation_caps(
                                                  @, s1.intercept_activation_caps),
                                              !.intercept_active_inputs = <<>>]
                                    s3 == set_intercept_mode(s2, "Always")
                                    chord == <<NativeEvent(s3.intercept_mode_target_cap, 1),
                                               NativeEvent(s3.intercept_mode_target_cap, 0)>>
                                IN  Return(write_chord_events(s3, chord), TRUE)
             ELSE IF ~is_pressed /\ Contains(s.intercept_active_inputs, cap)
                  THEN LET s1 == [s EXCEPT !.intercept_active_inputs =
                                               RemoveAt(@, Position(@, cap))]
                           chord == <<NativeEvent(cap, 1), NativeEvent(cap, 0)>>
                       IN  Return(write_chord_events(s1, chord), TRUE)
                  ELSE Return(s, FALSE)
        ELSE IF Len(s.intercept_active_inputs) # 0 /\ is_pressed
             THEN LET held == Append(s.intercept_active_inputs, cap)
                      chord == [i \in 1..Len(held) |-> NativeEvent(held[i], 1)]
                      s1 == write_chord_events(s, chord)
                  IN  Return([s1 EXCEPT !.intercept_active_inputs = <<>>], TRUE)
             ELSE Return(s, FALSE)

is_intercept_event(s, event, is_pressed, intercept) ==
    IF Len(s.intercept_activation_caps) = 1
    THEN is_intercept_event_single(s, event, is_pressed, intercept)
    ELSE is_intercept_event_multi(s, event, is_pressed, intercept)

(***************************************************************************)
(* Profile translation.  A ProfileMapping is                               *)
(* [name, source_event, target_events]; the value translator and the       *)
(* source matcher live outside this file.                                  *)
(***************************************************************************)
\* ProfileMapping::source_matches_properties: a button source has no
\* properties to match, so every event of the capability matches.
source_matches_properties(mapping, event) == TRUE

\* InputValue::translate: a button value maps to the same button value; a
\* target that is not implemented yields TranslationError::NotImplemented.
translate(value, source_cap, target_cap) ==
    IF target_cap = NotImplemented
    THEN [ok |-> FALSE, value |-> 0]
    ELSE [ok |-> TRUE, value |-> value]

RECURSIVE translate_targets(_, _, _)
translate_targets(event, target_events, i) ==
    IF i > Len(target_events)
    THEN <<>>
    ELSE LET target_cap == target_events[i]
             result == translate(get_value(event), as_capability(event), target_cap)
             rest == translate_targets(event, target_events, i + 1)
         IN  IF result.ok
             THEN <<NativeEvent(target_cap, result.value)>> \o rest
             ELSE rest

translate_event(s, event) ==
    LET source_cap == as_capability(event)
    IN  IF source_cap \in DOMAIN s.device_profile_config_map
        THEN LET mappings == s.device_profile_config_map[source_cap]
                 matching == {i \in DOMAIN mappings :
                                 source_matches_properties(mappings[i], event)}
             IN  IF matching = {}
                 THEN <<event>>
                 ELSE LET first == CHOOSE i \in matching : \A j \in matching : i <= j
                      IN  translate_targets(event, mappings[first].target_events, 1)
        ELSE <<event>>

(***************************************************************************)
(* handle_event: profile translation, the filters, emission.               *)
(***************************************************************************)
RECURSIVE handle_event_loop(_, _, _, _, _, _, _)
handle_event_loop(s, events, i, is_pressed, is_chord, intercept, sleep_time) ==
    IF i > Len(events)
    THEN s
    ELSE LET event == events[i]
             cap == as_capability(event)
             s1 == IF IsButton(cap) THEN is_new_active_event(s, cap, is_pressed) ELSE s
             s2 == IF IsButton(cap) /\ s1.ret
                   THEN is_intercept_event(s1, event, is_pressed, intercept)
                   ELSE s1
         IN  IF IsButton(cap) /\ ~s1.ret
             THEN handle_event_loop(s1, events, i + 1, is_pressed, is_chord,
                                    intercept, sleep_time)
             ELSE IF IsButton(cap) /\ s2.ret
                  THEN handle_event_loop(s2, events, i + 1, is_pressed, is_chord,
                                         intercept, sleep_time)
                  ELSE IF is_chord
                       THEN handle_event_loop(
                                Spawn(s2, WriteEventCmd(event), sleep_time),
                                events, i + 1, is_pressed, is_chord, intercept,
                                sleep_time + ChordStaggerMs)
                       ELSE LET s3 == write_event(s2, event)
                            IN  IF s3.err
                                THEN s3
                                ELSE handle_event_loop(s3, events, i + 1, is_pressed,
                                                       is_chord, intercept, sleep_time)

HandleEventReleasesAtOnce(s, event) ==
    LET is_pressed == pressed(event)
        translated == IF is_some(s.device_profile)
                      THEN translate_event(s, event)
                      ELSE <<event>>
        is_chord == Len(translated) > 1
        events == IF is_chord /\ ~is_pressed THEN Reverse(translated) ELSE translated
        intercept == s.intercept_mode = "Pass"
    IN  handle_event_loop(s, events, 1, is_pressed, is_chord, intercept, 0)

HandleEventKeepsOrderOnRelease(s, event) ==
    LET is_pressed == pressed(event)
        translated == IF is_some(s.device_profile)
                      THEN translate_event(s, event)
                      ELSE <<event>>
        is_chord == Len(translated) > 1
        sleep_time == IF is_chord /\ ~is_pressed
                      THEN ChordStaggerMs * Len(translated)
                      ELSE 0
        intercept == s.intercept_mode = "Pass"
    IN  handle_event_loop(s, translated, 1, is_pressed, is_chord, intercept, sleep_time)

\* The intercept filter is armed in every mode.
HandleEventFiltersInEveryMode(s, event) ==
    LET is_pressed == pressed(event)
        translated == IF is_some(s.device_profile)
                      THEN translate_event(s, event)
                      ELSE <<event>>
        is_chord == Len(translated) > 1
        events == IF is_chord /\ ~is_pressed THEN Reverse(translated) ELSE translated
        sleep_time == IF is_chord /\ ~is_pressed
                      THEN ChordStaggerMs * Len(translated)
                      ELSE 0
    IN  handle_event_loop(s, events, 1, is_pressed, is_chord, TRUE, sleep_time)

handle_event(s, event) ==
    LET is_pressed == pressed(event)
        translated == IF is_some(s.device_profile)
                      THEN translate_event(s, event)
                      ELSE <<event>>
        is_chord == Len(translated) > 1
        events == IF is_chord /\ ~is_pressed THEN Reverse(translated) ELSE translated
        sleep_time == IF is_chord /\ ~is_pressed
                      THEN ChordStaggerMs * Len(translated)
                      ELSE 0
        intercept == s.intercept_mode = "Pass"
    IN  handle_event_loop(s, events, 1, is_pressed, is_chord, intercept, sleep_time)

(***************************************************************************)
(* Capability-map translation.  A CapabilityMapping is                     *)
(* [name, source_events, target_event].                                    *)
(***************************************************************************)
\* load_capability_map: the source capabilities of every mapping, in order.
RECURSIVE load_capability_map(_)
load_capability_map(mapping) ==
    IF Len(mapping) = 0
    THEN <<>>
    ELSE SelectSeq(Head(mapping).source_events, LAMBDA cap : cap # NotImplemented)
             \o load_capability_map(Tail(mapping))

HasEverySourceEventPressed(s, mapping) ==
    \A i \in DOMAIN mapping.source_events :
        \/ mapping.source_events[i] = NotImplemented
        \/ Contains(s.translatable_active_inputs, mapping.source_events[i])

has_source_event_pressed(s, mapping) ==
    \E i \in DOMAIN mapping.source_events :
        /\ mapping.source_events[i] # NotImplemented
        /\ Contains(s.translatable_active_inputs, mapping.source_events[i])

is_missing_source_event(s, mapping) ==
    \E i \in DOMAIN mapping.source_events :
        /\ mapping.source_events[i] # NotImplemented
        /\ ~Contains(s.translatable_active_inputs, mapping.source_events[i])

MapRemove(map, key) == [k \in DOMAIN map \ {key} |-> map[k]]

MapInsert(map, key, value) == [k \in DOMAIN map \cup {key} |-> IF k = key THEN value ELSE map[k]]

\* The release path of one mapping: the mapping leaves emitted_mappings and
\* its release is queued once none of its sources is held.
release_mapping(st, mapping) ==
    IF /\ mapping.name \in DOMAIN st.s.emitted_mappings
       /\ ~has_source_event_pressed(st.s, mapping)
       /\ mapping.target_event # NotImplemented
    THEN [s |-> [st.s EXCEPT !.emitted_mappings = MapRemove(@, mapping.name)],
          emit_queue |-> Append(st.emit_queue, NativeEvent(mapping.target_event, 0))]
    ELSE st

\* The press path of one mapping: its press is queued and the mapping enters
\* emitted_mappings when every source is held.
press_mapping(st, mapping) ==
    IF ~is_missing_source_event(st.s, mapping) /\ mapping.target_event # NotImplemented
    THEN [s |-> [st.s EXCEPT !.emitted_mappings = MapInsert(@, mapping.name, mapping)],
          emit_queue |-> Append(st.emit_queue, NativeEvent(mapping.target_event, 1))]
    ELSE st

\* for mapping in map.mapping.iter() { ... }
RECURSIVE match_mappings(_, _, _, _)
match_mappings(st, event, mapping, i) ==
    IF i > Len(mapping)
    THEN st
    ELSE match_mappings(IF pressed(event)
                        THEN press_mapping(st, mapping[i])
                        ELSE release_mapping(st, mapping[i]),
                        event, mapping, i + 1)

\* for event in emit_queue { ... }: the 4 ms debounce, then handle_event.
RECURSIVE emit_translated(_, _, _)
emit_translated(s, emit_queue, i) ==
    IF i > Len(emit_queue)
    THEN s
    ELSE LET event == emit_queue[i]
             cap == as_capability(event)
         IN  IF cap \in s.translated_recent_events
             THEN emit_translated(Spawn(s, HandleEventCmd(event), DebounceMs),
                                  emit_queue, i + 1)
             ELSE LET s1 == [s EXCEPT !.translated_recent_events = @ \cup {cap}]
                      s2 == Spawn(s1, RemoveRecentEventCmd(cap), DebounceMs)
                      s3 == handle_event(s2, event)
                  IN  IF s3.err THEN s3 ELSE emit_translated(s3, emit_queue, i + 1)

translate_capability(s, event) ==
    IF ~is_some(s.capability_map)
    THEN [s EXCEPT !.err = TRUE]
    ELSE LET map == unwrap(s.capability_map)
             event_capability == as_capability(event)
             held == Contains(s.translatable_active_inputs, event_capability)
         IN  IF pressed(event) = held
             THEN s
             ELSE LET s1 == [s EXCEPT !.translatable_active_inputs =
                                IF pressed(event)
                                THEN Append(@, event_capability)
                                ELSE RemoveAt(@, Position(@, event_capability))]
                      st == match_mappings([s |-> s1, emit_queue |-> <<>>],
                                           event, map.mapping, 1)
                  IN  emit_translated(st.s, st.emit_queue, 1)

(***************************************************************************)
(* write_send_event: external injection with the same debounce.            *)
(***************************************************************************)
write_send_event(s, event) ==
    LET cap == as_capability(event)
        s1 == is_new_active_event(s, cap, pressed(event))
    IN  IF cap \in s1.translated_recent_events
        THEN Spawn(s1, WriteEventCmd(event), DebounceMs)
        ELSE LET s2 == [s1 EXCEPT !.translated_recent_events = @ \cup {cap}]
                 s3 == Spawn(s2, RemoveRecentEventCmd(cap), DebounceMs)
             IN  write_event(s3, event)

(***************************************************************************)
(* process_event: an event of source `device_id`.                          *)
(***************************************************************************)
ProcessEventOfBlockedSource(s, device_id, event) ==
    IF as_capability(event) = NotImplemented
    THEN s
    ELSE IF is_some(s.capability_map)
               /\ Contains(s.translatable_capabilities, as_capability(event))
         THEN translate_capability(s, event)
         ELSE handle_event(s, event)

ProcessEventDefersHandling(s, device_id, event) ==
    IF device_id \in s.source_devices_blocked
    THEN s
    ELSE Spawn(s, HandleEventCmd(event), 0)

\* The translator runs and the raw event is handled as well.
ProcessEventHandlesRawToo(s, device_id, event) ==
    IF device_id \in s.source_devices_blocked
    THEN s
    ELSE LET cap == as_capability(event)
         IN  IF cap = NotImplemented
             THEN s
             ELSE IF is_some(s.capability_map)
                     /\ Contains(s.translatable_capabilities, cap)
                  THEN LET s1 == translate_capability(s, event)
                       IN  IF s1.err THEN s1 ELSE handle_event(s1, event)
                  ELSE handle_event(s, event)

process_event(s, device_id, event) ==
    IF device_id \in s.source_devices_blocked
    THEN s
    ELSE LET cap == as_capability(event)
         IN  IF cap = NotImplemented
             THEN s
             ELSE IF is_some(s.capability_map)
                     /\ Contains(s.translatable_capabilities, cap)
                  THEN translate_capability(s, event)
                  ELSE handle_event(s, event)


(***************************************************************************)
(* process_output_event: the force-feedback broker.  An output event is    *)
(* [kind, id, target] for FFUpload (the effect id the target names and the *)
(* target that waits for the reply), [kind, id] for FFErase and            *)
(* [kind, code, value] for a FORCEFEEDBACK play event.  `accepted` maps    *)
(* each source that answers an UploadEffect with Ok to the effect id it    *)
(* answers with; the other sources answer Err or not within a second.      *)
(***************************************************************************)
\* `x as i16`
ToI16(x) == ((x + 32768) % 65536) - 32768

\* BTreeSet::iter().next()
First(set) == CHOOSE x \in set : \A y \in set : x <= y

SourceCommand(source, cmd, id) == [source |-> source, cmd |-> cmd, id |-> id]

\* target_dev.send(reply)?: the reply is handed over, or the target no longer
\* waits for it and the handler returns Err.
ReplyTo(s, target, reply) ==
    IF target \in closed_targets
    THEN [s EXCEPT !.err = TRUE]
    ELSE [s EXCEPT !.replies = Append(@, reply)]

\* for (source_id, source_effect_id) in source_effect_ids.iter() {
\*     source.send(cmd).await?; }
\* over the sources of the effect that are still in source_devices.
SendToEffectSources(s, effect_id, cmd) ==
    LET source_effect_ids == s.ff_effect_id_source_map[effect_id]
        sources == DOMAIN source_effect_ids \cap s.source_devices
        failed == sources \cap closed_sources # {}
        reached == IF failed THEN (sources \ closed_sources) \cap s.iter ELSE sources
    IN  [s EXCEPT !.to_sources = @ \cup {SourceCommand(source, cmd,
                                                       source_effect_ids[source]) :
                                         source \in reached},
                  !.err = failed]

UploadTakesLargest(s, id, target, accepted) ==
    IF id \in DOMAIN s.ff_effect_id_source_map
    THEN LET s1 == SendToEffectSources(s, id, "UpdateEffect")
         IN  IF s1.err THEN s1 ELSE ReplyTo(s1, target, Some(id))
    ELSE LET open == s.source_devices \ (closed_sources \cup full_sources)
             source_effect_ids == [source \in DOMAIN accepted \cap open |->
                                      accepted[source]]
             s1 == [s EXCEPT !.to_sources =
                        {SourceCommand(source, "UploadEffect", 0) : source \in open}]
             s2 == IF DOMAIN source_effect_ids = {}
                   THEN ReplyTo(s1, target, None)
                   ELSE s1
         IN  IF s2.err
             THEN s2
             ELSE IF s2.ff_effect_ids # {}
                  THEN LET new_id == CHOOSE x \in s2.ff_effect_ids :
                                         \A y \in s2.ff_effect_ids : x >= y
                           s3 == [s2 EXCEPT
                                     !.ff_effect_ids = @ \ {new_id},
                                     !.ff_effect_id_source_map =
                                         MapInsert(@, new_id, source_effect_ids)]
                       IN  ReplyTo(s3, target, Some(new_id))
                  ELSE ReplyTo(s2, target, None)

\* UinputOutputEvent::FFUpload(id, data, target_dev)
ff_upload(s, id, target, accepted) ==
    IF id \in DOMAIN s.ff_effect_id_source_map
    THEN LET s1 == SendToEffectSources(s, id, "UpdateEffect")
         IN  IF s1.err THEN s1 ELSE ReplyTo(s1, target, Some(id))
    ELSE LET open == s.source_devices \ (closed_sources \cup full_sources)
             source_effect_ids == [source \in DOMAIN accepted \cap open |->
                                      accepted[source]]
             s1 == [s EXCEPT !.to_sources =
                        {SourceCommand(source, "UploadEffect", 0) : source \in open}]
             \* if source_effect_ids.is_empty() { target_dev.send(None)?; }
             s2 == IF DOMAIN source_effect_ids = {}
                   THEN ReplyTo(s1, target, None)
                   ELSE s1
         IN  IF s2.err
             THEN s2
             ELSE IF s2.ff_effect_ids # {}
                  THEN LET new_id == First(s2.ff_effect_ids)
                           s3 == [s2 EXCEPT
                                     !.ff_effect_ids = @ \ {new_id},
                                     !.ff_effect_id_source_map =
                                         MapInsert(@, new_id, source_effect_ids)]
                       IN  ReplyTo(s3, target, Some(new_id))
                  ELSE ReplyTo(s2, target, None)

\* UinputOutputEvent::FFErase(effect_id)
EraseKeepsEntry(s, id) ==
    LET effect_id == ToI16(id)
        s1 == IF effect_id \in DOMAIN s.ff_effect_id_source_map
              THEN SendToEffectSources(s, effect_id, "EraseEffect")
              ELSE s
    IN  IF s1.err
        THEN s1
        ELSE [s1 EXCEPT !.ff_effect_ids = @ \cup {effect_id}]

ff_erase(s, id) ==
    LET effect_id == ToI16(id)
        s1 == IF effect_id \in DOMAIN s.ff_effect_id_source_map
              THEN SendToEffectSources(s, effect_id, "EraseEffect")
              ELSE s
    IN  IF s1.err
        THEN s1
        ELSE [s1 EXCEPT !.ff_effect_ids = @ \cup {effect_id},
                        !.ff_effect_id_source_map =
                            IF effect_id \in DOMAIN @ THEN MapRemove(@, effect_id) ELSE @]

\* A FORCEFEEDBACK play event: its code is rewritten to each source's own
\* effect id and written to the source with try_send; a source that has no
\* id for the effect, or whose channel is closed or full, is skipped.
\* `x as u16`
ToU16(x) == x % 65536

\* SourceCommand::WriteEvent(OutputEvent::Evdev(InputEvent::new_now(
\*     FORCEFEEDBACK, code, value)))
WriteFFEvent(source, code, value) ==
    [source |-> source, cmd |-> "WriteEvent", id |-> code, value |-> value]

PlayKeepsVirtualId(s, code, value) ==
    LET effect_id == ToI16(code)
        holders == IF effect_id \in DOMAIN s.ff_effect_id_source_map
                   THEN DOMAIN s.ff_effect_id_source_map[effect_id]
                   ELSE {}
        reached == (s.source_devices \cap holders) \ (closed_sources \cup full_sources)
    IN  [s EXCEPT !.to_sources =
            {WriteFFEvent(source, code, value) : source \in reached}]

ff_play(s, code, value) ==
    LET effect_id == ToI16(code)
        holders == IF effect_id \in DOMAIN s.ff_effect_id_source_map
                   THEN DOMAIN s.ff_effect_id_source_map[effect_id]
                   ELSE {}
        reached == (s.source_devices \cap holders) \ (closed_sources \cup full_sources)
    IN  [s EXCEPT !.to_sources =
            {WriteFFEvent(source,
                          ToU16(s.ff_effect_id_source_map[effect_id][source]),
                          value) :
             source \in reached}]

\* The sources to which the handler of `event` sends with send(..).await:
\* those of a known effect that is uploaded again or erased.
awaited_sources(s, event) ==
    LET effect_id == IF event.kind = "FFErase" THEN ToI16(event.id) ELSE event.id IN
    IF event.kind \in {"FFUpload", "FFErase"}
          /\ effect_id \in DOMAIN s.ff_effect_id_source_map
    THEN DOMAIN s.ff_effect_id_source_map[effect_id] \cap s.source_devices
    ELSE {}

process_output_event(s, event, accepted) ==
    IF event.kind = "FFUpload"
    THEN ff_upload(s, event.id, event.target, accepted)
    ELSE IF event.kind = "FFErase"
         THEN ff_erase(s, event.id)
         ELSE ff_play(s, event.id, event.value)


(***************************************************************************)
(* Profile loading.  A DeviceProfile is [name, mapping, target_devices];   *)
(* `file` is what DeviceProfile::from_yaml_file returns for the path:      *)
(* [ok, profile].                                                          *)
(***************************************************************************)
\* for mapping in profile.mapping.iter() {
\*     self.device_profile_config_map.entry(source_event_cap).or_default()
\*         .push(mapping.clone()); }
RECURSIVE load_mappings(_, _)
load_mappings(config_map, mapping) ==
    IF Len(mapping) = 0
    THEN config_map
    ELSE LET source_event_cap == Head(mapping).source_event
             entry == IF source_event_cap \in DOMAIN config_map
                      THEN config_map[source_event_cap]
                      ELSE <<>>
         IN  load_mappings(MapInsert(config_map, source_event_cap,
                                     Append(entry, Head(mapping))),
                           Tail(mapping))

LoadReplacesOnlyOnSuccess(s, file) ==
    IF ~file.ok
    THEN [s EXCEPT !.err = TRUE]
    ELSE LET profile == file.profile
             s2 == [s EXCEPT !.device_profile = Some(profile.name),
                             !.device_profile_config_map =
                                 load_mappings(<<>>, profile.mapping)]
         IN  IF is_some(profile.target_devices)
             THEN Spawn(s2, SetTargetDevicesCmd(unwrap(profile.target_devices)), 0)
             ELSE s2

load_device_profile_from_path(s, file) ==
    LET s1 == [s EXCEPT !.device_profile_config_map = <<>>]
    IN  IF ~file.ok
        THEN [s1 EXCEPT !.err = TRUE]
        ELSE LET profile == file.profile
                 s2 == [s1 EXCEPT !.device_profile = Some(profile.name),
                                  !.device_profile_config_map =
                                      load_mappings(@, profile.mapping)]
             IN  IF is_some(profile.target_devices)
                 THEN Spawn(s2, SetTargetDevicesCmd(unwrap(profile.target_devices)), 0)
                 ELSE s2

\* Command::LoadProfilePath(path, sender): the outcome goes to the sender.
load_profile_path(s, file) ==
    LET s1 == load_device_profile_from_path(s, file)
    IN  [s1 EXCEPT !.replies = <<[ok |-> ~s1.err]>>, !.err = FALSE]

\* Command::GetProfileName(sender): device_profile.clone().unwrap_or_default()
get_profile_name(s) ==
    [s EXCEPT !.replies = <<IF is_some(s.device_profile)
                            THEN unwrap(s.device_profile)
                            ELSE "">>]

(***************************************************************************)
(* Target reconfiguration.  `responses` are the input manager's answers,   *)
(* one per requested kind: [create, path, attach], where create and attach *)
(* are "Ok", "Err" (the manager answers with an error), "Closed" (the      *)
(* answer channel closes without an answer) or "SendError" (the manager's  *)
(* command channel is closed).                                             *)
(***************************************************************************)
ManagerCommand(cmd, arg) == [cmd |-> cmd, arg |-> arg]

RECURSIVE create_targets(_, _, _, _)
create_targets(s, device_types, responses, i) ==
    IF i > Len(device_types)
    THEN s
    ELSE LET kind == device_types[i]
             response == responses[i]
             s1 == [s EXCEPT !.to_manager =
                        Append(@, ManagerCommand("CreateTargetDevice", kind))]
             s2 == [s1 EXCEPT !.to_manager =
                        Append(@, ManagerCommand("AttachTargetDevice", response.path))]
         IN  IF response.create = "SendError"
             THEN [s EXCEPT !.err = TRUE]
             ELSE IF response.create # "Ok"
                  THEN create_targets(s1, device_types, responses, i + 1)
                  ELSE IF response.attach = "SendError"
                       THEN [s1 EXCEPT !.err = TRUE]
                       ELSE IF response.attach = "Closed"
                            THEN create_targets(s2, device_types, responses, i + 1)
                            ELSE create_targets(
                                     [s2 EXCEPT
                                         !.target_devices_queued =
                                             @ \cup {response.path},
                                         !.attached =
                                             IF response.attach = "Ok"
                                             THEN @ \cup {response.path}
                                             ELSE @],
                                     device_types, responses, i + 1)

SetTargetDevicesIgnoresQueued(s, device_types, responses) ==
    LET s1 == [s EXCEPT !.stopped = s.target_devices,
                        !.target_devices = {},
                        !.slept = IF s.target_devices # {} THEN TargetStopMs ELSE 0]
    IN  IF ~is_some(s1.dbus_path)
        THEN [s1 EXCEPT !.err = TRUE]
        ELSE create_targets(s1, device_types, responses, 1)

set_target_devices(s, device_types, responses) ==
    IF s.target_devices_queued # {}
    THEN Spawn(s, SetTargetDevicesCmd(device_types), 0)
    ELSE LET s1 == [s EXCEPT !.stopped = s.target_devices,
                             !.target_devices = {},
                             !.slept = IF s.target_devices # {}
                                       THEN TargetStopMs
                                       ELSE 0]
         IN  IF ~is_some(s1.dbus_path)
             THEN [s1 EXCEPT !.err = TRUE]
             ELSE create_targets(s1, device_types, responses, 1)

\* for (path, target) in targets.into_iter() {
\*     target.send(SetCompositeDevice)  (Err: return)
\*     target_devices_queued.remove(&path); target_devices.insert(path, target); }
attach_target_devices(s, targets) ==
    LET failed == targets \cap closed_targets # {}
        reached == IF failed THEN (targets \ closed_targets) \cap s.iter ELSE targets
    IN  [s EXCEPT !.target_devices_queued = @ \ reached,
                  !.target_devices = @ \cup reached,
                  !.err = failed]


\* The source devices there are: the scheme of the id and the device's name.
SourceDevices ==
    {[scheme |-> "evdev://", name |-> "event0"],
     [scheme |-> "evdev://", name |-> "event1"],
     [scheme |-> "hidraw://", name |-> "hidraw0"],
     [scheme |-> "iio://", name |-> "iio:device0"]}

get_id(device) == device.scheme \o device.name

IioDevices == "/sys/bus/iio/devices"

\* id.starts_with(scheme), id.strip_prefix(scheme)
starts_with(id, scheme) == \E d \in SourceDevices : d.scheme = scheme /\ get_id(d) = id

strip_prefix(id, scheme) ==
    (CHOOSE d \in SourceDevices : d.scheme = scheme /\ get_id(d) = id).name

\* The device path on_source_device_removed derives from an id, which is the
\* path the source device of that id has.
path_of(id) ==
    IF starts_with(id, "evdev://")
    THEN Some("/dev/input/" \o strip_prefix(id, "evdev://"))
    ELSE IF starts_with(id, "hidraw://")
         THEN Some("/dev/" \o strip_prefix(id, "hidraw://"))
         ELSE IF starts_with(id, "iio://")
              THEN Some(IioDevices \o "/" \o strip_prefix(id, "iio://"))
              ELSE None

get_device_path(id) == unwrap(path_of(id))

is_iio_path(path) ==
    \E d \in SourceDevices : d.scheme = "iio://" /\ path = get_device_path(get_id(d))
DBusPath == "/org/shadowblip/InputPlumber/CompositeDevice0"

(***************************************************************************)
(* The source registry.                                                    *)
(***************************************************************************)
\* if let Some(idx) = vec.iter().position(|str| str == &x) { vec.remove(idx); }
RemoveFirst(vec, x) == IF Contains(vec, x) THEN RemoveAt(vec, Position(vec, x)) ELSE vec

on_source_device_removed(s, id) ==
    IF is_some(path_of(id))
    THEN [s EXCEPT !.source_device_paths = RemoveFirst(@, unwrap(path_of(id))),
                   !.source_devices_used = RemoveFirst(@, id),
                   !.source_devices_blocked = @ \ {id}]
    ELSE s

\* The drained devices in turn: a blocked one is skipped, the others get a
\* channel and a task.  `iio_ok` is whether the IMU interface of an IIO
\* device can be put on DBus.
RECURSIVE start_sources(_, _, _)
start_sources(s, sources, iio_ok) ==
    IF Len(sources) = 0
    THEN s
    ELSE LET device_id == Head(sources) IN
         IF device_id \in s.source_devices_blocked
         THEN start_sources(s, Tail(sources), iio_ok)
         ELSE LET s1 == [s EXCEPT !.source_devices = @ \cup {device_id}] IN
              IF starts_with(device_id, "iio://") /\ ~iio_ok
              THEN [s1 EXCEPT !.err = TRUE]
              ELSE start_sources([s1 EXCEPT !.source_device_tasks = Append(@, device_id)],
                                 Tail(sources), iio_ok)

\* `hide_ok` is whether hide_device succeeds.
run_source_devices(s, hide_ok, iio_ok) ==
    IF ~hide_ok /\ \E i \in DOMAIN s.source_device_paths :
                       ~is_iio_path(s.source_device_paths[i])
    THEN [s EXCEPT !.err = TRUE]
    ELSE start_sources([s EXCEPT !.source_devices_discovered = <<>>],
                       s.source_devices_discovered, iio_ok)

\* `is_blocked` is what the configuration says of the device, `caps_ok`
\* whether its capabilities can be read.
add_source_device(s, device, is_blocked, caps_ok) ==
    IF ~is_blocked /\ ~caps_ok
    THEN [s EXCEPT !.err = TRUE]
    ELSE [s EXCEPT !.source_devices_discovered = Append(@, get_id(device)),
                   !.source_device_paths = Append(@, get_device_path(get_id(device))),
                   !.source_devices_used = Append(@, get_id(device)),
                   !.source_devices_blocked =
                       IF is_blocked THEN @ \cup {get_id(device)} ELSE @]

on_source_device_added(s, device, is_blocked, answers) ==
    LET s1 == add_source_device(s, device, is_blocked, answers.caps) IN
    IF s1.err
    THEN s1
    ELSE run_source_devices(s1, answers.hide, answers.iio)

SourceGoneBreaksWithoutTasks(s, device_id) ==
    LET s1 == on_source_device_removed(s, device_id) IN
    [s1 EXCEPT !.brk = (s1.source_devices \ {device_id} = {})]

\* The arms of SourceDeviceStopped and SourceDeviceRemoved, and of Stop.
source_device_gone(s, device_id) ==
    LET s1 == on_source_device_removed(s, device_id) IN
    [s1 EXCEPT !.brk = (s1.source_devices_used = <<>>)]

stop(s) == [s EXCEPT !.brk = TRUE]

\* The orders in which a HashMap may be iterated.
Orders(map) ==
    {order \in [1..Cardinality(map) -> map] :
        \A i, j \in DOMAIN order : order[i] = order[j] => i = j}

Op(op, arg) == [op |-> op, arg |-> arg]

ShutdownStopsSourcesFirst(targets, dbus_targets, sources) ==
    [i \in DOMAIN sources |-> Op("StopSource", sources[i])]
        \o [i \in DOMAIN targets |-> Op("StopTarget", targets[i])]
        \o [i \in DOMAIN dbus_targets |-> Op("StopTarget", dbus_targets[i])]
        \o [i \in DOMAIN SelectSeq(source_device_paths, LAMBDA path : ~is_iio_path(path)) |->
               Op("Unhide", SelectSeq(source_device_paths,
                                      LAMBDA path : ~is_iio_path(path))[i])]
        \o <<Op("Join", source_device_tasks)>>

\* run() after the 'main loop, with the target and source maps iterated in
\* the given orders.
shutdown_path(targets, dbus_targets, sources) ==
    IF ~is_some(dbus_path)
    THEN <<Op("Panic", "dbus_path")>>
    ELSE [i \in DOMAIN targets |-> Op("StopTarget", targets[i])]
         \o [i \in DOMAIN dbus_targets |-> Op("StopTarget", dbus_targets[i])]
         \o [i \in DOMAIN SelectSeq(source_device_paths, LAMBDA path : ~is_iio_path(path)) |->
                Op("Unhide", SelectSeq(source_device_paths,
                                       LAMBDA path : ~is_iio_path(path))[i])]
         \o [i \in DOMAIN sources |-> Op("StopSource", sources[i])]
         \o <<Op("Join", source_device_tasks)>>


(***************************************************************************)
(* The environment: targets, sources, timers.                              *)
(***************************************************************************)
NormalTargets == {"gamepad0", "keyboard0"}
DBusTargets == {"dbus0"}
Sources == {"evdev://event0", "evdev://event1"}


\* ff_effect_ids: (0..64).collect()
EffectIds == 64

\* Bounds of the model: tasks and queued commands outstanding at a time, the
\* commands of a recorded run, and the effects uploaded at a time.
MaxTimers == 2
MaxScript == 4
MaxEffects == 3
MaxSources == 2

RECURSIVE BagOfTasks(_)
BagOfTasks(tasks) ==
    IF Len(tasks) = 0
    THEN EmptyBag
    ELSE SetToBag({[cmd |-> Head(tasks).cmd, rem |-> Head(tasks).delay]})
             (+) BagOfTasks(Tail(tasks))

Sleeping == BagToSet(timers)

\* The tasks still sleeping after the handler itself has slept `ms`: those due
\* within `ms` have sent their commands, the others are `ms` nearer.
Elapsed(ms) ==
    IF ms = 0
    THEN timers
    ELSE LET late == {task \in Sleeping : task.rem > ms}
         IN  [task \in {[cmd |-> x.cmd, rem |-> x.rem - ms] : x \in late} |->
                 timers[[cmd |-> task.cmd, rem |-> task.rem + ms]]]

\* The orders in which the tasks due within `ms` can have sent their commands:
\* by deadline, tasks of the same deadline in any order.
SendOrders(ms) ==
    LET due == {task \in Sleeping : task.rem <= ms}
        n == IF ms = 0 THEN 0 ELSE BagCardinality([task \in due |-> timers[task]])
    IN  {order \in [1..n -> due] :
            /\ \A task \in due :
                   Cardinality({i \in 1..n : order[i] = task}) = timers[task]
            /\ \A i, j \in 1..n : i < j => order[i].rem <= order[j].rem}

\* What a handler did to the outside besides writing events and spawning
\* tasks: whether it returned Err, its replies on reply channels, the
\* commands it sent to sources and to the input manager, the targets it
\* stopped.
Out(s) ==
    [err |-> s.err, replies |-> s.replies, to_sources |-> s.to_sources,
     to_manager |-> s.to_manager, stopped |-> s.stopped]

NoOut ==
    [err |-> FALSE, replies |-> <<>>, to_sources |-> {}, to_manager |-> <<>>,
     stopped |-> {}]

\* A handled command, with the active inputs, the mode, the free effect ids
\* and the uploaded effects it found.
Cmd(origin, type, event, arg) ==
    [origin |-> origin, type |-> type, event |-> event, arg |-> arg,
     active_before |-> IF origin = "env" THEN <<>> ELSE active_inputs,
     mode_before |-> IF origin = "env" THEN "" ELSE intercept_mode,
     pool_before |-> IF origin = "env" THEN {} ELSE ff_effect_ids,
     effects_before |-> IF origin = "env" THEN <<>> ELSE ff_effect_id_source_map]

NoEvent == NativeEvent("None", 0)

\* What the iteration of a target map can visit before it meets a closed
\* channel: any of the map's other entries.
Iterations ==
    SUBSET (UNION {map \in {target_devices, target_dbus_devices} :
                       map \cap closed_targets # {}} \ closed_targets)

\* What the iteration of an effect's sources can visit before it meets a
\* closed channel.
SourceIterations ==
    SUBSET (IF source_devices \cap closed_sources # {}
            THEN source_devices \ (closed_sources \cup full_sources)
            ELSE {})

\* The paths the input manager gives to the targets it creates.
CreatedPaths == {"target1", "target2"}

\* The answers the input manager can give to one set_target_devices call: one
\* of `answers` for every requested kind, each created target under a path
\* of its own that no pending target has.
ManagerResponses(device_types, answers) ==
    {responses \in [1..Len(device_types) ->
                       {[create |-> a.create, attach |-> a.attach, path |-> path] :
                            a \in answers, path \in CreatedPaths}] :
        /\ \A i, j \in DOMAIN responses :
               responses[i].path = responses[j].path => i = j
        /\ \A i \in DOMAIN responses :
               responses[i].path \notin target_devices_queued \cup attaching}

\* The events of `records` that reached a target of `targets`, in order.
RECURSIVE Received(_, _)
Received(records, targets) ==
    IF Len(records) = 0
    THEN <<>>
    ELSE (IF Head(records).to \cap targets # {} THEN <<Head(records).event>> ELSE <<>>)
             \o Received(Tail(records), targets)

\* No task sleeps and no command of a task waits.
Quiet == timers = EmptyBag /\ queue = <<>>

\* A line of the script: a command from outside, and whether the loop
\* received it with nothing else pending.
Line(type, event, arg, settled) ==
    [type |-> type, event |-> event, arg |-> arg, settled |-> settled]

Record(cmd, records) ==
    /\ recording' = recording
    /\ recording /\ cmd.origin = "extern" => Len(script) < MaxScript
    /\ script' = IF recording /\ cmd.origin = "extern"
                 THEN Append(script, Line(cmd.type, cmd.event, cmd.arg, Quiet))
                 ELSE script
    /\ normal_log' = IF recording
                     THEN normal_log \o Received(records, NormalTargets)
                     ELSE normal_log
    /\ dbus_log' = IF recording
                   THEN dbus_log \o Received(records, DBusTargets)
                   ELSE dbus_log
    /\ shutdown' = shutdown
    /\ UNCHANGED joining

\* The handler returned `s`: its fields are the controller's new fields, the
\* tasks it spawned start sleeping.  `fatal` is whether the loop breaks on Err.
Commit(s, cmd, fatal) ==
    /\ capability_map' = s.capability_map
    /\ translatable_capabilities' = s.translatable_capabilities
    /\ device_profile' = s.device_profile
    /\ device_profile_config_map' = s.device_profile_config_map
    /\ translatable_active_inputs' = s.translatable_active_inputs
    /\ translated_recent_events' = s.translated_recent_events
    /\ emitted_mappings' = s.emitted_mappings
    /\ intercept_mode' = s.intercept_mode
    /\ intercept_activation_caps' = s.intercept_activation_caps
    /\ intercept_mode_target_cap' = s.intercept_mode_target_cap
    /\ intercept_active_inputs' = s.intercept_active_inputs
    /\ active_inputs' = s.active_inputs
    /\ source_devices_blocked' = s.source_devices_blocked
    /\ target_devices' = s.target_devices
    /\ target_dbus_devices' = s.target_dbus_devices
    /\ target_devices_queued' = s.target_devices_queued
    /\ source_devices' = s.source_devices
    /\ source_devices_discovered' = s.source_devices_discovered
    /\ source_devices_used' = s.source_devices_used
    /\ source_device_paths' = s.source_device_paths
    /\ source_device_tasks' = s.source_device_tasks
    /\ dbus_path' = s.dbus_path
    /\ ff_effect_ids' = s.ff_effect_ids
    /\ ff_effect_id_source_map' = s.ff_effect_id_source_map
    /\ BagCardinality(timers) + Len(s.spawned) + Len(queue) <= MaxTimers
    /\ timers' = Elapsed(s.slept) (+) BagOfTasks(s.spawned)
    /\ running' = (running /\ ~(fatal /\ s.err) /\ ~s.brk)
    /\ last_cmd' = cmd
    /\ sent' = s.sent
    /\ spawned' = s.spawned
    /\ out' = Out(s)
    /\ Record(cmd, s.sent)
    /\ stalled # <<>> => cmd.origin = "stalled"
    /\ stalled' = <<>>
    /\ UNCHANGED <<closed_targets, closed_sources, full_sources>>

(***************************************************************************)
(* The handlers of the 'main loop, one per Command.                        *)
(***************************************************************************)
OnProcessEventLogsFailure(origin, device_id, event) ==
    \E iter \in Iterations :
        Commit(process_event(Self(iter), device_id, event),
               Cmd(origin, "ProcessEvent", event, <<device_id>>), FALSE)

OnProcessEvent(origin, device_id, event) ==
    \E iter \in Iterations :
        Commit(process_event(Self(iter), device_id, event),
               Cmd(origin, "ProcessEvent", event, <<device_id>>), TRUE)

OnHandleEvent(origin, event) ==
    \E iter \in Iterations :
        Commit(handle_event(Self(iter), event),
               Cmd(origin, "HandleEvent", event, <<>>), FALSE)

OnWriteEvent(origin, event) ==
    \E iter \in Iterations :
        Commit(write_event(Self(iter), event),
               Cmd(origin, "WriteEvent", event, <<>>), FALSE)

OnWriteSendEvent(origin, event) ==
    \E iter \in Iterations :
        Commit(write_send_event(Self(iter), event),
               Cmd(origin, "WriteSendEvent", event, <<>>), FALSE)

OnWriteChordEvent(origin, events) ==
    Commit(write_chord_events(Self({}), events),
           Cmd(origin, "WriteChordEvent", Head(events), <<>>), FALSE)

OnRemoveRecentEvent(origin, cap) ==
    Commit([Self({}) EXCEPT !.translated_recent_events = @ \ {cap}],
           Cmd(origin, "RemoveRecentEvent", NativeEvent(cap, 0), <<>>), FALSE)

OnSetInterceptMode(origin, mode) ==
    Commit(set_intercept_mode(Self({}), mode),
           Cmd(origin, "SetInterceptMode", NoEvent, <<mode>>), FALSE)

OnSetInterceptActivation(origin, activation_caps, target_cap) ==
    Commit(set_intercept_activation(Self({}), activation_caps, target_cap),
           Cmd(origin, "SetInterceptActivation", NoEvent, activation_caps), FALSE)

OnProcessOutputEvent(origin, event, accepted) ==
    \E iter \in SourceIterations :
        Commit(process_output_event(Self(iter), event, accepted),
               Cmd(origin, "ProcessOutputEvent", NoEvent,
                   [event |-> event, accepted |-> accepted]), FALSE)

OnLoadProfilePath(origin, path, file) ==
    Commit(load_profile_path(Self({}), file),
           Cmd(origin, "LoadProfilePath", NoEvent, <<path>>), FALSE)

OnGetProfileName(origin) ==
    Commit(get_profile_name(Self({})),
           Cmd(origin, "GetProfileName", NoEvent, <<>>), FALSE)

\* `pending` are the commands that wait behind this one: those the tasks due
\* during the handler's sleep send are queued behind them.
OnSetTargetDevices(origin, device_types, answers, pending) ==
    \E responses \in ManagerResponses(device_types, answers) :
        LET s == set_target_devices(Self({}), device_types, responses) IN
        /\ Commit(s, Cmd(origin, "SetTargetDevices", NoEvent, device_types), FALSE)
        /\ attaching' = attaching \cup s.attached
        /\ \E order \in SendOrders(s.slept) :
               queue' = pending \o [i \in DOMAIN order |-> order[i].cmd]

OnAttachTargetDevices(origin, targets) ==
    \E iter \in SUBSET (IF targets \cap closed_targets # {}
                        THEN targets \ closed_targets
                        ELSE {}) :
        Commit(attach_target_devices(Self(iter), targets),
               Cmd(origin, "AttachTargetDevices", NoEvent, <<>>), FALSE)

SourceAnswers == [caps : BOOLEAN, hide : BOOLEAN, iio : BOOLEAN]

OnSourceDeviceAdded(origin, device, is_blocked) ==
    \E answers \in SourceAnswers :
        Commit(on_source_device_added(Self({}), device, is_blocked, answers),
               Cmd(origin, "SourceDeviceAdded", NoEvent, <<get_id(device)>>), FALSE)

OnSourceDeviceStopped(origin, device_id) ==
    Commit(source_device_gone(Self({}), device_id),
           Cmd(origin, "SourceDeviceStopped", NoEvent, <<device_id>>), FALSE)

OnSourceDeviceRemoved(origin, device_id) ==
    Commit(source_device_gone(Self({}), device_id),
           Cmd(origin, "SourceDeviceRemoved", NoEvent, <<device_id>>), FALSE)

OnStop(origin) ==
    Commit(stop(Self({})), Cmd(origin, "Stop", NoEvent, <<>>), FALSE)

(***************************************************************************)
(* Steps.  A command sent from outside (a source task, the control bus) is *)
(* handled when the loop receives it; a command sent by a woken timer task *)
(* waits in `queue` behind the timer commands sent before it.              *)
(***************************************************************************)
ProcessEvent(devices, events) ==
    /\ running
    /\ \E device_id \in devices, event \in events :
           OnProcessEvent("extern", device_id, event)
    /\ UNCHANGED <<queue, attaching>>

HandleEvent(events) ==
    /\ running
    /\ \E event \in events : OnHandleEvent("extern", event)
    /\ UNCHANGED <<queue, attaching>>

WriteEvent(events) ==
    /\ running
    /\ \E event \in events : OnWriteEvent("extern", event)
    /\ UNCHANGED <<queue, attaching>>

WriteSendEvent(events) ==
    /\ running
    /\ \E event \in events : OnWriteSendEvent("extern", event)
    /\ UNCHANGED <<queue, attaching>>

WriteChordEvent(chords) ==
    /\ running
    /\ \E events \in chords : OnWriteChordEvent("extern", events)
    /\ UNCHANGED <<queue, attaching>>

SetInterceptMode(modes) ==
    /\ running
    /\ \E mode \in modes : OnSetInterceptMode("extern", mode)
    /\ UNCHANGED <<queue, attaching>>

SetInterceptActivation(activations) ==
    /\ running
    /\ \E a \in activations : OnSetInterceptActivation("extern", a.caps, a.target)
    /\ UNCHANGED <<queue, attaching>>

\* The send to a source whose channel is full waits; the send to one whose
\* channel is closed fails.  Which of the two an iteration meets first is
\* open.
Stuck == full_sources \ closed_sources

MayStall(event) == awaited_sources(Self({}), event) \cap Stuck # {}

MayReturn(event) ==
    \/ ~MayStall(event)
    \/ awaited_sources(Self({}), event) \cap closed_sources # {}

ProcessOutputEvent(events, acceptances) ==
    /\ running
    /\ \E event \in events :
           /\ MayReturn(event)
           /\ \E accepted \in IF event.kind = "FFUpload" THEN acceptances ELSE {<<>>} :
                  OnProcessOutputEvent("extern", event, accepted)
    /\ Cardinality(DOMAIN ff_effect_id_source_map') <= MaxEffects
    /\ UNCHANGED <<queue, attaching>>

\* The handler of an output event starts and waits in source.send(..).await.
StallOutputEvent(events) ==
    /\ running
    /\ stalled = <<>>
    /\ \E event \in events :
           /\ MayStall(event)
           /\ stalled' = <<event>>
           /\ last_cmd' = Cmd("extern", "ProcessOutputEvent", NoEvent,
                              [event |-> event, accepted |-> <<>>])
    /\ sent' = <<>>
    /\ spawned' = <<>>
    /\ out' = NoOut
    /\ UNCHANGED <<fields, running, logs, timers, queue, closed_targets, closed_sources,
                   full_sources, attaching, joining>>

\* The channel has room again, or is closed: the handler goes on.
ResumeOutputEvent ==
    /\ running
    /\ stalled # <<>>
    /\ MayReturn(stalled[1])
    /\ OnProcessOutputEvent("stalled", stalled[1], <<>>)
    /\ UNCHANGED <<queue, attaching>>

LoadProfilePath(files) ==
    /\ running
    /\ \E path \in DOMAIN files : OnLoadProfilePath("extern", path, files[path])
    /\ UNCHANGED <<queue, attaching>>

GetProfileName ==
    /\ running
    /\ OnGetProfileName("extern")
    /\ UNCHANGED <<queue, attaching>>

SetTargetDevices(kinds, answers) ==
    /\ running
    /\ \E device_types \in kinds :
           OnSetTargetDevices("extern", device_types, answers, queue)

\* The input manager announces targets it has attached.
AttachTargetDevices ==
    /\ running
    /\ \E targets \in SUBSET attaching \ {{}} :
           /\ OnAttachTargetDevices("extern", targets)
           /\ attaching' = attaching \ targets
    /\ UNCHANGED queue

ReceiveSetTargetDevices(answers) ==
    /\ running
    /\ queue # <<>>
    /\ Head(queue).type = "SetTargetDevices"
    /\ OnSetTargetDevices("timer", Head(queue).device_types, answers, Tail(queue))

SourceDeviceAdded(devices) ==
    /\ running
    /\ Len(source_devices_used) < MaxSources
    /\ Len(source_devices_discovered) < MaxSources
    /\ Len(source_device_tasks) < MaxSources
    /\ \E device \in devices, is_blocked \in BOOLEAN :
           OnSourceDeviceAdded("extern", device, is_blocked)
    /\ UNCHANGED <<queue, attaching>>

SourceDeviceStopped(ids) ==
    /\ running
    /\ \E device_id \in ids : OnSourceDeviceStopped("extern", device_id)
    /\ UNCHANGED <<queue, attaching>>

SourceDeviceRemoved(ids) ==
    /\ running
    /\ \E device_id \in ids : OnSourceDeviceRemoved("extern", device_id)
    /\ UNCHANGED <<queue, attaching>>

Stop ==
    /\ running
    /\ OnStop("extern")
    /\ UNCHANGED <<queue, attaching>>

\* run() has left the 'main loop: it stops the targets, un-hides the source
\* devices, stops the sources and joins their tasks.
Shutdown ==
    /\ ~running
    /\ shutdown = <<>>
    /\ \E targets \in Orders(target_devices), dbus_targets \in Orders(target_dbus_devices),
          sources \in Orders(source_devices) :
           shutdown' = shutdown_path(targets, dbus_targets, sources)
    /\ last_cmd' = Cmd("env", "Shutdown", NoEvent, <<>>)
    /\ sent' = <<>>
    /\ spawned' = <<>>
    /\ out' = NoOut
    /\ UNCHANGED <<fields, running, recording, script, normal_log, dbus_log, timers,
                   queue, closed_targets, closed_sources, full_sources,
                   stalled, attaching, joining>>

ReceiveWriteEvent ==
    /\ running
    /\ queue # <<>>
    /\ Head(queue).type = "WriteEvent"
    /\ OnWriteEvent("timer", Head(queue).event)
    /\ queue' = Tail(queue)
    /\ UNCHANGED attaching

ReceiveHandleEvent ==
    /\ running
    /\ queue # <<>>
    /\ Head(queue).type = "HandleEvent"
    /\ OnHandleEvent("timer", Head(queue).event)
    /\ queue' = Tail(queue)
    /\ UNCHANGED attaching

ReceiveRemoveRecentEvent ==
    /\ running
    /\ queue # <<>>
    /\ Head(queue).type = "RemoveRecentEvent"
    /\ OnRemoveRecentEvent("timer", as_capability(Head(queue).event))
    /\ queue' = Tail(queue)
    /\ UNCHANGED attaching

\* A step of the environment: the loop handles nothing.
Idle(type) ==
    /\ last_cmd' = Cmd("env", type, NoEvent, <<>>)
    /\ sent' = <<>>
    /\ spawned' = <<>>
    /\ out' = NoOut
    /\ UNCHANGED <<fields, running, logs, joining>>

\* A task whose sleep has ended sends its command.
Wake ==
    /\ \E task \in Sleeping :
           /\ task.rem = 0
           /\ timers' = timers (-) SetToBag({task})
           /\ queue' = Append(queue, task.cmd)
    /\ Idle("Wake")
    /\ UNCHANGED <<closed_targets, closed_sources, full_sources,
                   stalled, attaching>>

\* Time passes, by `d` ms: no further than the next timer's deadline.
Tick(d) ==
    /\ Sleeping # {}
    /\ \A task \in Sleeping : task.rem >= d
    /\ timers' = [task \in {[cmd |-> x.cmd, rem |-> x.rem - d] : x \in Sleeping} |->
                     timers[[cmd |-> task.cmd, rem |-> task.rem + d]]]
    /\ Idle("Tick")
    /\ UNCHANGED <<queue, closed_targets, closed_sources, full_sources,
                   stalled, attaching>>

\* Time advances to the next deadline.
Deadlines == {x.rem : x \in Sleeping}

Advance == \E d \in Deadlines : d > 0 /\ Tick(d)

\* The task of a target ends: its command channel is closed from now on.
TargetClosed(targets) ==
    /\ running
    /\ \E target \in targets \ closed_targets :
           closed_targets' = closed_targets \cup {target}
    /\ Idle("TargetClosed")
    /\ UNCHANGED <<timers, queue, closed_sources, full_sources,
                   stalled, attaching>>

\* A source does not take its commands: its channel is full from now on.
SourceFull(sources) ==
    /\ running
    /\ \E source \in sources \ (closed_sources \cup full_sources) :
           full_sources' = full_sources \cup {source}
    /\ Idle("SourceFull")
    /\ UNCHANGED <<timers, queue, closed_targets, closed_sources, stalled, attaching>>

\* A source takes its commands again.
SourceDrained(sources) ==
    /\ running
    /\ \E source \in sources \cap full_sources :
           full_sources' = full_sources \ {source}
    /\ Idle("SourceDrained")
    /\ UNCHANGED <<timers, queue, closed_targets, closed_sources, stalled, attaching>>

\* The task of a source ends: its command channel is closed from now on.
SourceClosed(sources) ==
    /\ running
    /\ \E source \in sources \ closed_sources :
           closed_sources' = closed_sources \cup {source}
    /\ Idle("SourceClosed")
    /\ UNCHANGED <<timers, queue, closed_targets, full_sources, stalled, attaching>>

(***************************************************************************)
(* The controller after new() and the start of run(): default intercept    *)
(* settings, the capability map given to new(), the default profile if one *)
(* could be loaded, the targets given to run().                            *)
(***************************************************************************)
InitFrom(map, profile, rec, blocked, devices) ==
    /\ capability_map = map
    /\ translatable_capabilities =
           IF is_some(map) THEN load_capability_map(unwrap(map).mapping) ELSE <<>>
    /\ device_profile = IF is_some(profile) THEN Some(unwrap(profile).name) ELSE None
    /\ device_profile_config_map =
           IF is_some(profile) THEN unwrap(profile).config_map ELSE <<>>
    /\ translatable_active_inputs = <<>>
    /\ translated_recent_events = {}
    /\ emitted_mappings = <<>>
    /\ intercept_mode = "None"
    /\ intercept_activation_caps = <<"Guide">>
    /\ intercept_mode_target_cap = "Guide"
    /\ intercept_active_inputs = <<>>
    /\ active_inputs = <<>>
    /\ source_devices_blocked = blocked
    /\ target_devices = NormalTargets
    /\ target_dbus_devices = DBusTargets
    /\ target_devices_queued = {}
    /\ source_devices = Range(devices) \ blocked
    /\ source_devices_discovered = <<>>
    /\ source_devices_used = devices
    /\ source_device_paths = [i \in DOMAIN devices |-> get_device_path(devices[i])]
    /\ source_device_tasks = SelectSeq(devices, LAMBDA id : id \notin blocked)
    /\ dbus_path = Some(DBusPath)
    /\ ff_effect_ids = 0..(EffectIds - 1)
    /\ ff_effect_id_source_map = <<>>
    /\ running = TRUE
    /\ timers = EmptyBag
    /\ queue = <<>>
    /\ closed_targets = {}
    /\ closed_sources = {}
    /\ full_sources = {}
    /\ stalled = <<>>
    /\ attaching = {}
    /\ last_cmd = Cmd("env", "Start", NoEvent, <<>>)
    /\ sent = <<>>
    /\ spawned = <<>>
    /\ out = NoOut
    /\ recording = rec
    /\ script = <<>>
    /\ normal_log = <<>>
    /\ dbus_log = <<>>
    /\ shutdown = <<>>
    /\ ended = {}
    /\ backlog = 0

InitOf(map, profile, rec, blocked) ==
    InitFrom(map, profile, rec, blocked, <<"evdev://event0", "evdev://event1">>)

InitWith(map, profile, rec) == InitOf(map, profile, rec, {"evdev://event1"})

Press(caps) == {NativeEvent(cap, 1) : cap \in caps}

Release(caps) == {NativeEvent(cap, 0) : cap \in caps}

(***************************************************************************)
(* Spec: the routing of emissions.  Events of a button, an axis and a DBus *)
(* capability, injected events and chords, every intercept mode, a target  *)
(* that goes away.                                                         *)
(***************************************************************************)
RouteEvents == Press({"Guide", "DBusUi"}) \cup Release({"Guide"})

InjectedEvents == Press({"Guide"})

InjectedChords == {<<NativeEvent("Guide", 1), NativeEvent("Guide", 0)>>}

InterceptModes == {"None", "Pass", "Always"}

Closable == {"gamepad0"}

Init == InitWith(None, None, FALSE)

Next ==
    \/ ProcessEvent({"evdev://event0"}, RouteEvents)
    \/ HandleEvent(InjectedEvents)
    \/ WriteEvent(InjectedEvents)
    \/ WriteSendEvent(InjectedEvents)
    \/ WriteChordEvent(InjectedChords)
    \/ SetInterceptMode(InterceptModes)
    \/ ReceiveWriteEvent
    \/ ReceiveRemoveRecentEvent
    \/ Wake
    \/ Advance
    \/ TargetClosed(Closable)

Spec == Init /\ [][Next]_vars

(***************************************************************************)
(* SpecScenario: recorded runs of at most MaxScript commands from outside, *)
(* for the intercept scenarios: mode Pass, either activation chord, presses*)
(* of the chord's buttons and the release of Guide.                        *)
(***************************************************************************)
Activations == {[caps |-> <<"Guide">>, target |-> "Guide"],
                [caps |-> <<"LeftBumper", "RightBumper">>, target |-> "Guide"]}

ScenarioEvents == Press({"Guide", "LeftBumper", "RightBumper"}) \cup Release({"Guide"})

InitScenario == InitWith(None, None, TRUE)

NextScenario ==
    \/ ProcessEvent({"evdev://event0"}, ScenarioEvents)
    \/ SetInterceptMode({"Pass"})
    \/ SetInterceptActivation(Activations)
    \/ ReceiveWriteEvent
    \/ Wake
    \/ Advance

SpecScenario == InitScenario /\ [][NextScenario]_vars

(***************************************************************************)
(* SpecIntercept: the intercept state machine under every mode, with an    *)
(* activation chord of one button and one of two, and the delayed          *)
(* emissions of the chords it writes.                                      *)
(***************************************************************************)
InterceptActivations ==
    {[caps |-> <<"LeftBumper">>, target |-> "Guide"],
     [caps |-> <<"LeftBumper", "RightBumper">>, target |-> "Guide"]}

InterceptEvents == Press({"LeftBumper", "RightBumper"}) \cup Release({"LeftBumper"})

NextIntercept ==
    \/ ProcessEvent({"evdev://event0"}, InterceptEvents)
    \/ SetInterceptMode(InterceptModes)
    \/ SetInterceptActivation(InterceptActivations)
    \/ ReceiveWriteEvent
    \/ Wake
    \/ Advance

SpecIntercept == Init /\ [][NextIntercept]_vars

(***************************************************************************)
(* SpecTranslate: recorded runs of at most MaxScript ProcessEvent commands *)
(* of a keyboard, started with no translation, with a device profile (one  *)
(* key to one key, one key to a chord of two) or with a capability map     *)
(* (a chord of two keys, two mappings with the same target, two mappings   *)
(* with a common source).                                                  *)
(***************************************************************************)
ProfileMapping(name, source_event, target_events) ==
    [name |-> name, source_event |-> source_event, target_events |-> target_events]

CapabilityMapping(name, source_events, target_event) ==
    [name |-> name, source_events |-> source_events, target_event |-> target_event]

SingleProfile ==
    [name |-> "single",
     config_map |-> [cap \in {"KeyA"} |-> <<ProfileMapping("a", "KeyA", <<"KeyC">>)>>]]

ChordProfile ==
    [name |-> "chord",
     config_map |-> [cap \in {"KeyA"} |->
                        <<ProfileMapping("a", "KeyA", <<"KeyC", "KeyB">>)>>]]

ChordMap == [mapping |-> <<CapabilityMapping("ab", <<"KeyA", "KeyB">>, "South")>>]

SameTargetMap ==
    [mapping |-> <<CapabilityMapping("a", <<"KeyA">>, "South"),
                   CapabilityMapping("b", <<"KeyB">>, "South")>>]

SharedSourceMap ==
    [mapping |-> <<CapabilityMapping("ab", <<"KeyA", "KeyB">>, "South"),
                   CapabilityMapping("a", <<"KeyA">>, "East")>>]

Translations ==
    {[map |-> None, profile |-> None],
     [map |-> None, profile |-> Some(SingleProfile)],
     [map |-> None, profile |-> Some(ChordProfile)],
     [map |-> Some(ChordMap), profile |-> None],
     [map |-> Some(SameTargetMap), profile |-> None],
     [map |-> Some(SharedSourceMap), profile |-> None]}

KeyEvents == Press({"KeyA", "KeyB"}) \cup Release({"KeyA", "KeyB"})

InitTranslate == \E t \in Translations : InitWith(t.map, t.profile, TRUE)

NextTranslate ==
    \/ ProcessEvent({"evdev://event0"}, KeyEvents)
    \/ ReceiveWriteEvent
    \/ ReceiveHandleEvent
    \/ ReceiveRemoveRecentEvent
    \/ Wake
    \/ Advance

SpecTranslate == InitTranslate /\ [][NextTranslate]_vars

\* The last step handled `type`, which came from `origin`.
Handled(origin, type) == last_cmd.origin = origin /\ last_cmd.type = type

\* The last step ran handle_event on the command's event: no capability map
\* is loaded in the runs of Spec.
RanHandleEvent == last_cmd.type \in {"ProcessEvent", "HandleEvent"}

\* The target set write_event chooses for a send made in mode `mode`.
TargetSet(event, mode) ==
    IF IsDBus(as_capability(event)) \/ mode = "Always"
    THEN target_dbus_devices
    ELSE target_devices

(***************************************************************************)
(* C1: while intercept_mode is Always no event reaches an entry of         *)
(* target_devices, whichever command or delayed emission sends it: what is *)
(* sent then goes to entries of target_dbus_devices only.                  *)
(***************************************************************************)
C1_AlwaysOnlyDBus ==
    \A i \in DOMAIN sent :
        sent[i].mode = "Always" =>
            /\ sent[i].to \cap target_devices = {}
            /\ sent[i].to \subseteq target_dbus_devices

\* A delayed chord emission of a button, received in mode Always, reached the
\* DBus target.
C1_Witness ==
    /\ Handled("timer", "WriteEvent")
    /\ Len(sent) = 1
    /\ sent[1].mode = "Always"
    /\ ~IsDBus(as_capability(sent[1].event))
    /\ sent[1].to = DBusTargets

PassCmd == Line("SetInterceptMode", NoEvent, <<"Pass">>, TRUE)

BumpersCmd ==
    Line("SetInterceptActivation", NoEvent, <<"LeftBumper", "RightBumper">>, TRUE)

EventCmd(cap, value) ==
    Line("ProcessEvent", NativeEvent(cap, value), <<"evdev://event0">>, TRUE)

ScenarioA1 == <<PassCmd, EventCmd("Guide", 1)>>

ScenarioA2 == <<PassCmd, EventCmd("Guide", 1), EventCmd("Guide", 0)>>

ScenarioB1 == <<BumpersCmd, PassCmd, EventCmd("LeftBumper", 1)>>

ScenarioB2 ==
    <<BumpersCmd, PassCmd, EventCmd("LeftBumper", 1), EventCmd("RightBumper", 1)>>

(***************************************************************************)
(* C3, scenario A: with the activation chord [Guide] and mode Pass, a      *)
(* Guide press switches the mode to Always and, once its emission has been *)
(* received, the DBus targets have a Guide press and the normal targets    *)
(* nothing; after the following Guide release the DBus targets have the    *)
(* press and then the release, the normal targets still nothing.           *)
(***************************************************************************)
C3_ScenarioA ==
    /\ script \in {ScenarioA1, ScenarioA2} =>
           intercept_mode = "Always" /\ normal_log = <<>>
    /\ script = ScenarioA1 /\ Quiet => dbus_log = <<NativeEvent("Guide", 1)>>
    /\ script = ScenarioA2 /\ Quiet =>
           dbus_log = <<NativeEvent("Guide", 1), NativeEvent("Guide", 0)>>

\* Scenario A has run to its end.
C3_Witness ==
    /\ script = ScenarioA2
    /\ Quiet
    /\ dbus_log = <<NativeEvent("Guide", 1), NativeEvent("Guide", 0)>>
    /\ normal_log = <<>>

(***************************************************************************)
(* C4, scenario B: with the activation chord [LeftBumper, RightBumper],    *)
(* target Guide and mode Pass, a LeftBumper press is held: no target       *)
(* receives anything; the following RightBumper press switches the mode to *)
(* Always and the DBus targets receive a Guide press, then a Guide         *)
(* release; the normal targets receive nothing.                            *)
(***************************************************************************)
C4_ScenarioB ==
    /\ script = ScenarioB1 =>
           /\ intercept_mode = "Pass"
           /\ intercept_active_inputs = <<"LeftBumper">>
           /\ Quiet /\ normal_log = <<>> /\ dbus_log = <<>>
    /\ script = ScenarioB2 =>
           /\ intercept_mode = "Always"
           /\ normal_log = <<>>
           /\ Quiet => dbus_log = <<NativeEvent("Guide", 1), NativeEvent("Guide", 0)>>

\* Scenario B has run to its end.
C4_Witness ==
    /\ script = ScenarioB2
    /\ Quiet
    /\ dbus_log = <<NativeEvent("Guide", 1), NativeEvent("Guide", 0)>>
    /\ normal_log = <<>>

\* The new-active filter accepted the event of the last command.
Accepted ==
    \/ ~IsButton(as_capability(last_cmd.event))
    \/ pressed(last_cmd.event)
    \/ Contains(last_cmd.active_before, as_capability(last_cmd.event))

(***************************************************************************)
(* C5 as stated: while intercept_mode is None, a non-DBus event that the   *)
(* new-active filter accepts is delivered to every entry of target_devices *)
(* by the step that handles it: it is not held back, swallowed or sent to  *)
(* a DBus target, whatever intercept_active_inputs holds.                  *)
(***************************************************************************)
C5_NoneDeliversToNormal ==
    (/\ RanHandleEvent
     /\ last_cmd.mode_before = "None"
     /\ ~IsDBus(as_capability(last_cmd.event))
     /\ Accepted)
        => /\ sent = <<[event |-> last_cmd.event, to |-> target_devices,
                        mode |-> "None"]>>
           /\ spawned = <<>>

\* The capabilities held after `events`, starting from `held`: a press adds
\* its capability, a release removes it.
RECURSIVE ApplyTransitions(_, _)
ApplyTransitions(held, events) ==
    IF Len(events) = 0
    THEN held
    ELSE ApplyTransitions(IF pressed(Head(events))
                          THEN held \cup {as_capability(Head(events))}
                          ELSE held \ {as_capability(Head(events))},
                          Tail(events))

\* The events the last step emitted, then those it left to WriteEvent tasks.
StepEvents ==
    [i \in DOMAIN sent |-> sent[i].event]
        \o [i \in DOMAIN SelectSeq(spawned, LAMBDA task : task.cmd.type = "WriteEvent") |->
               SelectSeq(spawned, LAMBDA task : task.cmd.type = "WriteEvent")[i].cmd.event]

\* The profile turns no event into a chord.
NoChord ==
    \A cap \in DOMAIN device_profile_config_map :
        \A i \in DOMAIN device_profile_config_map[cap] :
            Len(device_profile_config_map[cap][i].target_events) <= 1

(***************************************************************************)
(* C6 as stated: after each ProcessEvent command active_inputs is the set  *)
(* of capabilities whose last transition in the stream of events delivered *)
(* to the targets was a press.                                             *)
(***************************************************************************)
C6_ActiveInputsMatchDelivered ==
    Handled("extern", "ProcessEvent") =>
        Range(active_inputs) = ApplyTransitions({}, normal_log)

(***************************************************************************)
(* C6 amended: after each command active_inputs is the set of keys whose   *)
(* last transition among the events the controller has emitted or handed   *)
(* to a delayed WriteEvent was a press: each step that runs handle_event   *)
(* changes active_inputs by exactly the events it emits or schedules, and  *)
(* no other step changes it.  It is the set read off the delivered stream  *)
(* whenever the profile turns no event into a chord.                       *)
(***************************************************************************)
C6_ActiveInputsMatchAccepted ==
    /\ RanHandleEvent =>
           Range(active_inputs) =
               ApplyTransitions(Range(last_cmd.active_before), StepEvents)
    /\ last_cmd.type \in {"WriteEvent", "RemoveRecentEvent"} =>
           active_inputs = last_cmd.active_before
    /\ NoChord => Range(active_inputs) = ApplyTransitions({}, normal_log)

\* A press that the profile turns into a chord has been handled: both keys
\* of the chord are active, none has been delivered yet.
C6_Witness ==
    /\ Handled("extern", "ProcessEvent")
    /\ last_cmd.event = NativeEvent("KeyA", 1)
    /\ active_inputs = <<"KeyC", "KeyB">>
    /\ Len(spawned) = 2
    /\ normal_log = <<>>

\* The events of the commands received so far.
Events(lines) == [i \in DOMAIN lines |-> lines[i].event]

Key(cap, value) == NativeEvent(cap, value)

(***************************************************************************)
(* C9 as stated, scenario C: with the capability map {KeyA+KeyB -> South}, *)
(* KeyA press emits nothing, the following KeyB press emits a South press  *)
(* and the following KeyA release emits a South release.                   *)
(***************************************************************************)
C9_ScenarioC ==
    capability_map = Some(ChordMap) =>
        /\ Events(script) = <<Key("KeyA", 1)>> => normal_log = <<>>
        /\ Events(script) = <<Key("KeyA", 1), Key("KeyB", 1)>> =>
               normal_log = <<Key("South", 1)>>
        /\ Events(script) = <<Key("KeyA", 1), Key("KeyB", 1), Key("KeyA", 0)>> /\ Quiet =>
               normal_log = <<Key("South", 1), Key("South", 0)>>

(***************************************************************************)
(* C9 amended: with the capability map {KeyA+KeyB -> South}, KeyA press    *)
(* emits nothing, the following KeyB press emits a South press, the        *)
(* following KeyA release emits nothing and leaves the mapping emitted;    *)
(* the South release is emitted when KeyB, the last source held, is        *)
(* released too.                                                           *)
(***************************************************************************)
C9_ScenarioCReleaseOnLastSource ==
    capability_map = Some(ChordMap) =>
        /\ Events(script) = <<Key("KeyA", 1)>> => normal_log = <<>>
        /\ Events(script) = <<Key("KeyA", 1), Key("KeyB", 1)>> =>
               normal_log = <<Key("South", 1)>>
        /\ Events(script) = <<Key("KeyA", 1), Key("KeyB", 1), Key("KeyA", 0)>> =>
               /\ normal_log = <<Key("South", 1)>>
               /\ "ab" \in DOMAIN emitted_mappings
        /\ (/\ Events(script) =
                  <<Key("KeyA", 1), Key("KeyB", 1), Key("KeyA", 0), Key("KeyB", 0)>>
            /\ Quiet)
               => /\ normal_log = <<Key("South", 1), Key("South", 0)>>
                  /\ emitted_mappings = <<>>

\* Scenario C and the release of KeyB have run.
C9_Witness ==
    /\ capability_map = Some(ChordMap)
    /\ Events(script) = <<Key("KeyA", 1), Key("KeyB", 1), Key("KeyA", 0), Key("KeyB", 0)>>
    /\ Quiet
    /\ normal_log = <<Key("South", 1), Key("South", 0)>>

(***************************************************************************)
(* C10 as stated: a mapping of the capability map is in emitted_mappings   *)
(* if and only if a press of its target_event has been emitted and the     *)
(* release has not been emitted since.  Read where no emission is pending, *)
(* and, for mappings with the same target_event, as: the target is pressed *)
(* in the emitted stream if and only if one of them is in                  *)
(* emitted_mappings.                                                       *)
(***************************************************************************)
C10_EmittedIffTargetPressed ==
    is_some(capability_map) /\ Quiet =>
        LET mapping == unwrap(capability_map).mapping IN
        \A i \in DOMAIN mapping :
            (\E j \in DOMAIN mapping :
                /\ mapping[j].target_event = mapping[i].target_event
                /\ mapping[j].name \in DOMAIN emitted_mappings)
                <=> mapping[i].target_event \in ApplyTransitions({}, normal_log)

(***************************************************************************)
(* C7: a release of a key or button that handle_event receives while the   *)
(* capability is not in active_inputs is suppressed: nothing is delivered, *)
(* no emission is scheduled and active_inputs is left as it was.           *)
(***************************************************************************)
C7_ReleaseWithoutPressSuppressed ==
    (/\ RanHandleEvent
     /\ IsButton(as_capability(last_cmd.event))
     /\ ~pressed(last_cmd.event)
     /\ ~Contains(last_cmd.active_before, as_capability(last_cmd.event)))
        => /\ sent = <<>>
           /\ spawned = <<>>
           /\ active_inputs = last_cmd.active_before

\* A second release of Guide: other inputs are active, Guide is not.
C7_Witness ==
    /\ Handled("extern", "ProcessEvent")
    /\ last_cmd.event = NativeEvent("Guide", 0)
    /\ ~Contains(last_cmd.active_before, "Guide")
    /\ sent = <<>>
    /\ intercept_mode = "Pass"

(***************************************************************************)
(* C8: active_inputs holds each capability at most once, and a press of a  *)
(* capability that is already in it is passed on by the new-active filter  *)
(* and leaves active_inputs as it was.                                     *)
(***************************************************************************)
C8_NoDuplicateActiveInputs ==
    /\ \A i, j \in DOMAIN active_inputs :
           active_inputs[i] = active_inputs[j] => i = j
    /\ \A cap \in Range(active_inputs) :
           LET s == is_new_active_event(Self({}), cap, TRUE) IN
           s.ret /\ s.active_inputs = active_inputs
    /\ (/\ RanHandleEvent
        /\ IsButton(as_capability(last_cmd.event))
        /\ pressed(last_cmd.event)
        /\ Contains(last_cmd.active_before, as_capability(last_cmd.event)))
           => /\ active_inputs = last_cmd.active_before
              /\ last_cmd.mode_before # "Pass" => Len(sent) = 1

\* A repeated press of Guide was emitted to the normal targets.
C8_Witness ==
    /\ Handled("extern", "ProcessEvent")
    /\ last_cmd.event = NativeEvent("Guide", 1)
    /\ last_cmd.active_before = <<"Guide">>
    /\ active_inputs = <<"Guide">>
    /\ Len(sent) = 1
    /\ sent[1].to = NormalTargets

(***************************************************************************)
(* SpecProfile: recorded runs of at most MaxScript commands, started with  *)
(* or without a default profile: profiles loaded from a file that maps     *)
(* KeyA to the chord KeyB+KeyC, from a file that names target devices and  *)
(* from a file that cannot be parsed; queries of the profile name; presses *)
(* and releases of KeyA; the reconfiguration a loaded profile asks for.    *)
(***************************************************************************)
DeviceProfile(name, mapping, targets) ==
    [name |-> name, mapping |-> mapping, target_devices |-> targets]

ScenarioDProfile ==
    DeviceProfile("scenario_d", <<ProfileMapping("a", "KeyA", <<"KeyB", "KeyC">>)>>, None)

TargetsProfile ==
    DeviceProfile("targets",
                  <<ProfileMapping("a", "KeyA", <<"KeyC">>),
                    ProfileMapping("b", "KeyA", <<"KeyB">>)>>,
                  Some(<<"gamepad">>))

\* DeviceProfile::from_yaml_file(path)
ProfileFiles ==
    [path \in {"chord.yaml", "targets.yaml", "broken.yaml"} |->
        CASE path = "chord.yaml" -> [ok |-> TRUE, profile |-> ScenarioDProfile]
          [] path = "targets.yaml" -> [ok |-> TRUE, profile |-> TargetsProfile]
          [] OTHER -> [ok |-> FALSE, profile |-> DeviceProfile("", <<>>, None)]]

ProfileEvents == Press({"KeyA"}) \cup Release({"KeyA"})

ProfileAnswers == {[create |-> "Ok", attach |-> "Ok"]}

InitProfile == \E profile \in {None, Some(SingleProfile)} : InitWith(None, profile, TRUE)

NextProfile ==
    \/ LoadProfilePath(ProfileFiles)
    \/ GetProfileName
    \/ ProcessEvent({"evdev://event0"}, ProfileEvents)
    \/ ReceiveWriteEvent
    \/ ReceiveSetTargetDevices(ProfileAnswers)
    \/ AttachTargetDevices
    \/ Wake
    \/ Advance

SpecProfile == InitProfile /\ [][NextProfile]_vars

LoadCmd(path) == Line("LoadProfilePath", NoEvent, <<path>>, TRUE)

\* The delayed WriteEvent tasks of a chord of releases of `caps`, the first
\* `delay` ms after the command.
RECURSIVE ReleaseTasks(_, _)
ReleaseTasks(caps, delay) ==
    IF Len(caps) = 0
    THEN <<>>
    ELSE <<Task(WriteEventCmd(NativeEvent(Head(caps), 0)), delay)>>
             \o ReleaseTasks(Tail(caps), delay + ChordStaggerMs)

\* The profile in force maps KeyA to KeyB and KeyC.
ScenarioDLoaded ==
    /\ is_some(device_profile)
    /\ device_profile_config_map = load_mappings(<<>>, ScenarioDProfile.mapping)

ScenarioD == <<LoadCmd("chord.yaml"), EventCmd("KeyA", 1), EventCmd("KeyA", 0)>>

(***************************************************************************)
(* C11 as stated, scenario D: with a profile that maps KeyA to KeyB and    *)
(* KeyC, the step that processes a KeyA release schedules a KeyC release   *)
(* and, 80 ms after it, a KeyB release.                                    *)
(***************************************************************************)
C11_ScenarioD ==
    (/\ ScenarioDLoaded
     /\ Handled("extern", "ProcessEvent")
     /\ last_cmd.event = NativeEvent("KeyA", 0))
        => /\ Len(spawned) = 2
           /\ spawned[1].cmd = WriteEventCmd(NativeEvent("KeyC", 0))
           /\ spawned[2].cmd = WriteEventCmd(NativeEvent("KeyB", 0))
           /\ spawned[2].delay = spawned[1].delay + ChordStaggerMs

(***************************************************************************)
(* C11 amended: with a profile that maps KeyA to KeyB and KeyC, the step   *)
(* that processes a KeyA release sends nothing itself and schedules the    *)
(* releases of those of KeyC, KeyB (in this order) that are in             *)
(* active_inputs, the first 160 ms after the command and the next 80 ms    *)
(* later: after KeyA press and KeyA release the targets have received      *)
(* KeyB press, KeyC press, KeyC release, KeyB release, and the KeyB        *)
(* release is due 80 ms after the KeyC release.  A KeyA release while      *)
(* neither key is active emits nothing.                                    *)
(***************************************************************************)
C11_ScenarioDAfterPress ==
    /\ (/\ ScenarioDLoaded
        /\ Handled("extern", "ProcessEvent")
        /\ last_cmd.event = NativeEvent("KeyA", 0))
           => /\ sent = <<>>
              /\ spawned = ReleaseTasks(
                     SelectSeq(<<"KeyC", "KeyB">>,
                               LAMBDA cap : Contains(last_cmd.active_before, cap)),
                     2 * ChordStaggerMs)
    /\ script = ScenarioD =>
           /\ \A first, second \in Sleeping :
                  /\ first.cmd = WriteEventCmd(NativeEvent("KeyC", 0))
                  /\ second.cmd = WriteEventCmd(NativeEvent("KeyB", 0))
                  => second.rem = first.rem + ChordStaggerMs
           /\ Quiet => normal_log = <<Key("KeyB", 1), Key("KeyC", 1),
                                      Key("KeyC", 0), Key("KeyB", 0)>>

\* Scenario D, after the press of KeyA, has run to its end.
C11_Witness ==
    /\ script = ScenarioD
    /\ Quiet
    /\ normal_log = <<Key("KeyB", 1), Key("KeyC", 1), Key("KeyC", 0), Key("KeyB", 0)>>

(***************************************************************************)
(* SpecFeedback: the output events of a target, on a controller with two   *)
(* running sources or with none (every source blocked), with at most       *)
(* MaxEffects effects uploaded at a time: uploads of a new effect and of   *)
(* effect 0, erasures of effect ids inside and outside the pool's range,   *)
(* play events; sources accept or refuse an upload; a source's task and    *)
(* the target's task may end.                                              *)
(***************************************************************************)
FFUpload(id, target) == [kind |-> "FFUpload", id |-> id, target |-> target]

FFErase(id) == [kind |-> "FFErase", id |-> id]

FFPlay(code, value) == [kind |-> "FFPlay", id |-> code, value |-> value]

OutputEvents ==
    {FFUpload(-1, "gamepad0"), FFUpload(0, "gamepad0"),
     FFErase(0), FFErase(1), FFErase(EffectIds),
     FFPlay(0, 1)}

\* Which sources answer an upload with Ok, and with which effect id.
Acceptances ==
    {[source \in sources |-> IF source = "evdev://event0" THEN 3 ELSE 5] :
        sources \in {{}, {"evdev://event0"}, Sources}}

InitFeedback == \E blocked \in {{}, Sources} : InitOf(None, None, FALSE, blocked)

NextFeedback ==
    \/ ProcessOutputEvent(OutputEvents, Acceptances)
    \/ SourceClosed({"evdev://event0"})
    \/ TargetClosed({"gamepad0"})

SpecFeedback == InitFeedback /\ [][NextFeedback]_vars

\* The last step handled an output event of kind `kind`.
HandledOutput(kind) ==
    /\ last_cmd.type = "ProcessOutputEvent"
    /\ last_cmd.arg.event.kind = kind

\* The sources that accepted the upload of the last step.
Accepting == (DOMAIN last_cmd.arg.accepted \cap source_devices) \ closed_sources

\* The last step handled an upload of an effect that was not known.
HandledNewUpload ==
    /\ HandledOutput("FFUpload")
    /\ last_cmd.arg.event.id \notin DOMAIN last_cmd.effects_before

\* The target of the last step's upload still waits for the reply.
ReplyAwaited == last_cmd.arg.event.target \notin closed_targets

(***************************************************************************)
(* C13: an upload of an effect that is not known, accepted by at least one *)
(* source, takes the smallest free id out of ff_effect_ids, records it     *)
(* with the accepting sources and replies Some(id) to a target that still  *)
(* waits.  So the first upload yields 0, the next one 1, an erasure of 0   *)
(* puts 0 back and the upload after it yields 0 again.                     *)
(***************************************************************************)
C13_UploadAllocatesSmallest ==
    /\ (HandledNewUpload /\ Accepting # {} /\ last_cmd.pool_before # {}) =>
           LET id == First(last_cmd.pool_before) IN
           /\ \A other \in last_cmd.pool_before : id <= other
           /\ ff_effect_ids = last_cmd.pool_before \ {id}
           /\ id \in DOMAIN ff_effect_id_source_map
           /\ DOMAIN ff_effect_id_source_map[id] = Accepting
           /\ ReplyAwaited => out.replies = <<Some(id)>>
           /\ last_cmd.pool_before = 0..(EffectIds - 1) => id = 0
           /\ last_cmd.pool_before = 1..(EffectIds - 1) => id = 1
           /\ last_cmd.pool_before = {0} \cup 2..(EffectIds - 1) => id = 0
    /\ (/\ HandledOutput("FFErase")
        /\ last_cmd.arg.event.id = 0
        /\ last_cmd.pool_before = 2..(EffectIds - 1)
        /\ closed_sources = {})
           => ff_effect_ids = {0} \cup 2..(EffectIds - 1)

\* After two uploads and the erasure of effect 0, an upload got id 0 again.
C13_Witness ==
    /\ HandledNewUpload
    /\ Accepting # {}
    /\ last_cmd.pool_before = {0} \cup 2..(EffectIds - 1)
    /\ DOMAIN last_cmd.effects_before = {1}
    /\ out.replies = <<Some(0)>>

(***************************************************************************)
(* C12 as stated: after any sequence of uploads and erasures, with any     *)
(* effect ids, the free ids and the uploaded effects are 64 together.      *)
(***************************************************************************)
C12_PoolAndMapAre64 ==
    Cardinality(ff_effect_ids) + Cardinality(DOMAIN ff_effect_id_source_map) = EffectIds

(***************************************************************************)
(* C14 as stated: once the erasure of an uploaded effect has been          *)
(* processed, its entry has left ff_effect_id_source_map and its id is     *)
(* back in ff_effect_ids, also when a source does not confirm, times out   *)
(* or cannot be written to.                                                *)
(***************************************************************************)
C14_EraseFreesId ==
    (/\ HandledOutput("FFErase")
     /\ ToI16(last_cmd.arg.event.id) \in DOMAIN last_cmd.effects_before)
        => /\ ToI16(last_cmd.arg.event.id) \notin DOMAIN ff_effect_id_source_map
           /\ ToI16(last_cmd.arg.event.id) \in ff_effect_ids

(***************************************************************************)
(* C15 as stated: an upload of an effect that is not known and that no     *)
(* source accepts is answered with None and allocates nothing:             *)
(* ff_effect_ids and ff_effect_id_source_map are as before.                *)
(***************************************************************************)
C15_NoSourceNoAllocation ==
    (HandledNewUpload /\ Accepting = {})
        => /\ ff_effect_ids = last_cmd.pool_before
           /\ ff_effect_id_source_map = last_cmd.effects_before
           /\ ReplyAwaited => out.replies = <<None>>

\* The LoadProfilePath commands received so far, as indices of the script.
Loads == {i \in DOMAIN script : script[i].type = "LoadProfilePath"}

\* The file of the load at index i of the script.
LoadedFile(i) == ProfileFiles[script[i].arg[1]]

Last(indices) == CHOOSE i \in indices : \A j \in indices : j <= i

\* What new() left in device_profile_config_map: the mappings of the default
\* profile if it could be loaded.  No later load has the default's name.
DefaultConfigMap ==
    IF device_profile = Some(SingleProfile.name) THEN SingleProfile.config_map ELSE <<>>

\* The mappings of a profile, by source capability.
ConfigMapOf(profile) == load_mappings(<<>>, profile.mapping)

(***************************************************************************)
(* C16 as stated: after any LoadProfilePath, succeeding or failing,        *)
(* device_profile_config_map holds exactly the mappings of the most recent *)
(* successful load (that of new() included), and is empty if no load has   *)
(* ever succeeded.                                                         *)
(***************************************************************************)
C16_ConfigMapOfLastSuccessfulLoad ==
    Handled("extern", "LoadProfilePath") =>
        LET succeeded == {i \in Loads : LoadedFile(i).ok} IN
        device_profile_config_map =
            IF succeeded = {}
            THEN DefaultConfigMap
            ELSE ConfigMapOf(LoadedFile(Last(succeeded)).profile)

(***************************************************************************)
(* C16 amended: device_profile_config_map always holds exactly the         *)
(* mappings of the most recent load: those of the loaded profile, grouped  *)
(* by source capability in the profile's order, if that load succeeded,    *)
(* and none if it failed; before the first LoadProfilePath it holds what   *)
(* the load of the default profile in new() left.                          *)
(***************************************************************************)
C16_ConfigMapOfLastLoad ==
    device_profile_config_map =
        IF Loads = {}
        THEN DefaultConfigMap
        ELSE IF LoadedFile(Last(Loads)).ok
             THEN ConfigMapOf(LoadedFile(Last(Loads)).profile)
             ELSE <<>>

\* A load has failed after the load of the chord profile had succeeded.
C16_Witness ==
    /\ Handled("extern", "LoadProfilePath")
    /\ last_cmd.arg = <<"broken.yaml">>
    /\ device_profile = Some(ScenarioDProfile.name)
    /\ device_profile_config_map = <<>>
    /\ out.replies = <<[ok |-> FALSE]>>

(***************************************************************************)
(* C17 as stated: a LoadProfilePath whose load fails replies with the      *)
(* error and leaves no profile active: device_profile_config_map is empty, *)
(* the controller names no profile, a later GetProfileName does not name   *)
(* the profile loaded before, and a later event is emitted untranslated.   *)
(***************************************************************************)
C17_FailedLoadLeavesNoProfile ==
    (Loads # {} /\ ~LoadedFile(Last(Loads)).ok) =>
        /\ device_profile_config_map = <<>>
        /\ device_profile = None
        /\ Handled("extern", "LoadProfilePath") => out.replies = <<[ok |-> FALSE]>>
        /\ Handled("extern", "GetProfileName") => out.replies = <<"">>
        /\ Handled("extern", "ProcessEvent") =>
               \A i \in DOMAIN sent : sent[i].event = last_cmd.event

(***************************************************************************)
(* Target reconfiguration: SetTargetDevices from the control bus, its      *)
(* re-posted copies, and the input manager attaching the created targets.  *)
(***************************************************************************)
TargetKinds == {<<"gamepad">>, <<"gamepad", "keyboard">>}

TargetAnswers ==
    {[create |-> "Ok", attach |-> "Ok"],
     [create |-> "Ok", attach |-> "Err"],
     [create |-> "Err", attach |-> "Ok"]}

InitTargets == InitWith(None, None, TRUE)

NextTargets ==
    \/ SetTargetDevices(TargetKinds, TargetAnswers)
    \/ ReceiveSetTargetDevices(TargetAnswers)
    \/ AttachTargetDevices
    \/ TargetClosed(CreatedPaths)
    \/ Wake

SpecTargets == InitTargets /\ [][NextTargets]_vars

\* The SetTargetDevices commands received from outside so far.
Reconfigurations == {i \in DOMAIN script : script[i].type = "SetTargetDevices"}

\* The command handled last was a SetTargetDevices, new or re-posted.
HandledSetTargetDevices ==
    last_cmd.type = "SetTargetDevices" /\ last_cmd.origin # "env"

\* The handler stopped a target or asked the input manager for one.
Rebuilt == out.stopped # {} \/ out.to_manager # <<>>

(***************************************************************************)
(* C18 as stated: of two SetTargetDevices commands issued in succession    *)
(* only the first tears the targets down and rebuilds them: the second     *)
(* command, when it is handled and whenever its re-posted copy is handled, *)
(* stops no target and asks the input manager for none.                    *)
(***************************************************************************)
C18_OneRebuildForTwo ==
    (Cardinality(Reconfigurations) = 2 /\ HandledSetTargetDevices) => ~Rebuilt

(***************************************************************************)
(* C18 amended: a SetTargetDevices handled while target_devices_queued is  *)
(* non-empty stops no target, asks the input manager for none, changes no  *)
(* field of the controller and spawns one task that sends the same command *)
(* again; a teardown and rebuild is only done by a SetTargetDevices        *)
(* handled while target_devices_queued is empty, so every command issued   *)
(* does its own teardown and rebuild, one after the other.                 *)
(***************************************************************************)
C18_QueuedOnlyReposts ==
    [][(last_cmd'.type = "SetTargetDevices" /\ last_cmd'.origin # "env") =>
          IF target_devices_queued # {}
          THEN /\ UNCHANGED fields
               /\ out' = NoOut
               /\ sent' = <<>>
               /\ spawned' = <<Task(SetTargetDevicesCmd(last_cmd'.arg), 0)>>
          ELSE /\ out'.stopped = target_devices
               /\ target_devices' = {}
               /\ spawned' = <<>>]_vars

\* A second SetTargetDevices was handled while the targets of the first were
\* waiting to be attached, and has re-posted itself.
C18_Witness ==
    /\ Handled("extern", "SetTargetDevices")
    /\ Cardinality(Reconfigurations) = 2
    /\ target_devices_queued # {}
    /\ ~Rebuilt
    /\ spawned = <<Task(SetTargetDevicesCmd(last_cmd.arg), 0)>>

(***************************************************************************)
(* Ordering.  The commands the tasks send wait in `queue`; the events a    *)
(* handler writes itself reach the targets while the handler runs.         *)
(***************************************************************************)
IsPrefix(s, t) == Len(s) <= Len(t) /\ SubSeq(t, 1, Len(s)) = s

\* The event of each ProcessEvent command in turn, translated by the one
\* mapping of the profile for it and passed by the new-active filter, where
\* `held` are the keys pressed so far.
RECURSIVE InOrder(_, _)
InOrder(events, held) ==
    IF Len(events) = 0
    THEN <<>>
    ELSE LET cap == as_capability(Head(events))
             target == IF is_some(device_profile) /\ cap \in DOMAIN device_profile_config_map
                       THEN device_profile_config_map[cap][1].target_events[1]
                       ELSE cap
             event == NativeEvent(target, get_value(Head(events)))
         IN  IF pressed(event)
             THEN <<event>> \o InOrder(Tail(events), held \cup {target})
             ELSE IF target \in held
                  THEN <<event>> \o InOrder(Tail(events), held \ {target})
                  ELSE InOrder(Tail(events), held)

\* No event of the run is emitted by a task: no capability map, no chord.
WrittenDirectly == ~is_some(capability_map) /\ NoChord

(***************************************************************************)
(* C19: the commands sent by tasks are handled in the order they were      *)
(* sent, one whole handler at a time: the command handled is the oldest    *)
(* waiting, the others keep their order and new ones queue behind them;    *)
(* and where every event is written directly, every target has received    *)
(* exactly the emitted events of the ProcessEvent commands, in the order   *)
(* in which the commands were processed.                                   *)
(***************************************************************************)
C19_ProcessedInOrder ==
    /\ [][IF last_cmd'.origin = "timer"
          THEN /\ queue # <<>>
               /\ last_cmd'.type = Head(queue).type
               /\ last_cmd'.event = Head(queue).event
               /\ IsPrefix(Tail(queue), queue')
          ELSE IsPrefix(queue, queue')]_vars
    /\ [](WrittenDirectly =>
              /\ normal_log = InOrder(Events(script), {})
              /\ \A i \in DOMAIN sent : sent[i].to = NormalTargets
              /\ spawned = <<>>)

\* Three commands of a keyboard with a profile have been processed, the
\* first and the last translated, and their events were received in order.
C19_Witness ==
    /\ Handled("extern", "ProcessEvent")
    /\ WrittenDirectly
    /\ is_some(device_profile)
    /\ Events(script) = <<Key("KeyA", 1), Key("KeyB", 1), Key("KeyA", 0)>>
    /\ normal_log = <<Key("KeyC", 1), Key("KeyB", 1), Key("KeyC", 0)>>

(***************************************************************************)
(* SpecFailure: every handler that sends to a target, with a target whose  *)
(* channel closes: events of a source, injected events and chords, the     *)
(* delayed emissions, and force-feedback uploads the target waits for.     *)
(***************************************************************************)
FailureEvents == Press({"Guide"})

FailureChords == {<<NativeEvent("Guide", 1)>>}

FailureOutputEvents == {FFUpload(-1, "gamepad0"), FFErase(0)}

NextFailure ==
    \/ ProcessEvent({"evdev://event0"}, FailureEvents)
    \/ HandleEvent(FailureEvents)
    \/ WriteEvent(FailureEvents)
    \/ WriteSendEvent(FailureEvents)
    \/ WriteChordEvent(FailureChords)
    \/ ProcessOutputEvent(FailureOutputEvents, Acceptances)
    \/ ReceiveWriteEvent
    \/ ReceiveRemoveRecentEvent
    \/ Wake
    \/ Advance
    \/ TargetClosed(Closable)

SpecFailure == Init /\ [][NextFailure]_vars

\* The handlers whose Err the main loop only logs.
LoggedHandlers ==
    {"WriteEvent", "WriteChordEvent", "WriteSendEvent", "HandleEvent",
     "ProcessOutputEvent"}

(***************************************************************************)
(* C20: a handler that fails to send to a target ends the main loop only   *)
(* if it is the handler of ProcessEvent, and then it always does; after    *)
(* the same failure in WriteEvent, WriteChordEvent, WriteSendEvent,        *)
(* HandleEvent or ProcessOutputEvent the loop keeps running; and nothing   *)
(* else ends the loop.                                                     *)
(***************************************************************************)
C20_OnlyProcessEventIsFatal ==
    [][/\ (last_cmd'.origin # "env" /\ out'.err) =>
              \/ last_cmd'.type = "ProcessEvent" /\ ~running'
              \/ last_cmd'.type \in LoggedHandlers /\ running'
       /\ (running /\ ~running') =>
              last_cmd'.type = "ProcessEvent" /\ out'.err]_vars

\* The loop has ended on an event of a source that a closed target could
\* not be sent.
C20_Witness ==
    /\ Handled("extern", "ProcessEvent")
    /\ out.err
    /\ ~running
    /\ closed_targets # {}
    /\ \E i \in DOMAIN sent : sent[i].to # target_devices

(***************************************************************************)
(* SpecSources: the source registry and the ways out of the 'main loop:    *)
(* sources added, stopped and removed, Stop, an event that a closed target *)
(* cannot be sent, and the shutdown path.                                  *)
(***************************************************************************)
AddedDevices == {device \in SourceDevices : device.name \in {"event0", "iio:device0"}}

SourceIds == {get_id(device) : device \in AddedDevices}

InitSources ==
    \E first \in {"evdev://event0", "iio://iio:device0"}, blocked \in BOOLEAN :
        InitFrom(None, None, FALSE, IF blocked THEN {first} ELSE {}, <<first>>)

NextSources ==
    \/ ProcessEvent({"evdev://event0"}, Press({"Guide"}))
    \/ SourceDeviceAdded(AddedDevices)
    \/ SourceDeviceStopped(SourceIds)
    \/ SourceDeviceRemoved(SourceIds)
    \/ Stop
    \/ TargetClosed(Closable)
    \/ Shutdown

SpecSources == InitSources /\ [][NextSources]_vars

\* The positions of the shutdown path at which `op` is done, and what it is
\* done to.
Steps(op) == {i \in DOMAIN shutdown : shutdown[i].op = op}

Done(op) == {shutdown[i].arg : i \in Steps(op)}

Before(first, second) == \A i \in Steps(first), j \in Steps(second) : i < j

Once(op) == \A i, j \in Steps(op) : shutdown[i].arg = shutdown[j].arg => i = j

(***************************************************************************)
(* C21: once run() has left the 'main loop no command is handled and no    *)
(* field changes; the shutdown path sends Stop once to every normal and    *)
(* DBus target, then un-hides every source path that is not an IIO path,   *)
(* in the order of source_device_paths, then sends Stop once to every      *)
(* source, and then starts joining all the source tasks.                   *)
(***************************************************************************)
C21_ShutdownInOrder ==
    /\ [][~running => /\ last_cmd'.origin = "env"
                      /\ UNCHANGED <<fields, running>>]_vars
    /\ [](shutdown # <<>> =>
              /\ ~running
              /\ Done("StopTarget") = target_devices \cup target_dbus_devices
              /\ Once("StopTarget")
              /\ [i \in 1..Cardinality(Steps("Unhide")) |->
                     shutdown[Cardinality(Steps("StopTarget")) + i].arg]
                     = SelectSeq(source_device_paths, LAMBDA path : ~is_iio_path(path))
              /\ Done("StopSource") = source_devices
              /\ Once("StopSource")
              /\ shutdown[Len(shutdown)] = Op("Join", source_device_tasks)
              /\ Steps("Join") = {Len(shutdown)}
              /\ Before("StopTarget", "Unhide")
              /\ Before("StopTarget", "StopSource")
              /\ Before("Unhide", "StopSource")
              /\ Steps("StopTarget") \cup Steps("Unhide") \cup Steps("StopSource")
                     = 1..(Len(shutdown) - 1))

\* The loop was left with an evdev and an IIO source registered and running,
\* and the shutdown path has run.
C21_Witness ==
    /\ shutdown # <<>>
    /\ Done("Unhide") = {"/dev/input/event0"}
    /\ \E i \in DOMAIN source_device_paths : is_iio_path(source_device_paths[i])
    /\ Cardinality(Done("StopSource")) = 2
    /\ Cardinality(Done("StopTarget")) = 3

\* The command handled last told that a source has stopped or was removed.
HandledSourceGone ==
    /\ last_cmd.origin # "env"
    /\ last_cmd.type \in {"SourceDeviceStopped", "SourceDeviceRemoved"}

(***************************************************************************)
(* C22: when SourceDeviceStopped(id) or SourceDeviceRemoved(id) has been   *)
(* handled, the 'main loop is left if and only if source_devices_used is   *)
(* empty; and the loop never runs with source_devices_used empty.          *)
(***************************************************************************)
C22_LeftIffNoSourceUsed ==
    /\ HandledSourceGone => (~running <=> source_devices_used = <<>>)
    /\ running => source_devices_used # <<>>

\* The last of two sources has been removed and the loop was left.
C22_Witness ==
    /\ HandledSourceGone
    /\ ~running
    /\ source_devices_used = <<>>
    /\ Len(source_device_tasks) = 2
    /\ last_cmd.arg = <<"iio://iio:device0">>

(***************************************************************************)
(* SpecDrop: events of a blocked source and events that decode to no       *)
(* implemented capability, among the events of a keyboard, with every      *)
(* translation and with the intercept mode changing.                       *)
(***************************************************************************)
DropEvents == KeyEvents \cup {NativeEvent(NotImplemented, 1), NativeEvent(NotImplemented, 0)}

\* A capability map with a mapping none of whose source events converts to an
\* implemented capability, next to a mapping of KeyA.
UnimplementedSourceMap ==
    [mapping |-> <<CapabilityMapping("a", <<"KeyA">>, "South"),
                   CapabilityMapping("u", <<NotImplemented>>, "East")>>]

InitDrop ==
    \E t \in Translations \cup {[map |-> Some(UnimplementedSourceMap), profile |-> None]} :
        InitWith(t.map, t.profile, FALSE)

NextDrop ==
    \/ ProcessEvent(Sources, DropEvents)
    \/ SetInterceptMode({"None", "Pass"})
    \/ ReceiveWriteEvent
    \/ ReceiveHandleEvent
    \/ ReceiveRemoveRecentEvent
    \/ Wake
    \/ Advance

SpecDrop == InitDrop /\ [][NextDrop]_vars

(***************************************************************************)
(* C23: a ProcessEvent of a source in source_devices_blocked, or of an     *)
(* event whose capability is NotImplemented, changes no field of the       *)
(* controller, sends nothing to a target or anything else, spawns no task  *)
(* and leaves the sleeping tasks, the waiting commands and the loop as     *)
(* they are.                                                               *)
(***************************************************************************)
C23_DroppedWithoutEffect ==
    [][(/\ last_cmd'.origin # "env"
        /\ last_cmd'.type = "ProcessEvent"
        /\ \/ last_cmd'.arg[1] \in source_devices_blocked
           \/ as_capability(last_cmd'.event) = NotImplemented)
       => /\ UNCHANGED <<fields, running, timers, queue>>
          /\ sent' = <<>>
          /\ spawned' = <<>>
          /\ out' = NoOut]_vars

\* A press of KeyB by the blocked source was dropped while KeyA was held
\* and KeyB was not.
C23_Witness ==
    /\ Handled("extern", "ProcessEvent")
    /\ last_cmd.arg = <<"evdev://event1">>
    /\ last_cmd.event = Key("KeyB", 1)
    /\ last_cmd.arg[1] \in source_devices_blocked
    /\ active_inputs = <<"KeyA">>
    /\ sent = <<>>

(***************************************************************************)
(* SpecStall: the force-feedback broker with a source that stops taking    *)
(* its commands: uploads of a new and of a known effect, erasures, play    *)
(* events, and a command of the control bus behind them.                   *)
(***************************************************************************)
StallEvents == {FFUpload(-1, "gamepad0"), FFUpload(0, "gamepad0"), FFErase(0), FFPlay(0, 1)}

NextStall ==
    \/ ProcessOutputEvent(StallEvents, Acceptances)
    \/ StallOutputEvent(StallEvents)
    \/ ResumeOutputEvent
    \/ GetProfileName
    \/ SourceFull(Sources)
    \/ SourceDrained(Sources)
    \/ SourceClosed({"evdev://event0"})

SpecStall == InitFeedback /\ [][NextStall]_vars

(***************************************************************************)
(* C24 as stated: no command to a source makes the controller wait: the    *)
(* handler of an output event never waits in a send to a source whose      *)
(* channel is full, so the loop can always go on to the next command.      *)
(***************************************************************************)
C24_SourceWritesNeverBlock == stalled = <<>>

(***************************************************************************)
(* SpecActivation: the activation chord replaced while the filter holds    *)
(* inputs (a chord of the two bumpers, and South alone), and a press of    *)
(* South while the left bumper is held for the chord of two.               *)
(***************************************************************************)
ReplacedActivations ==
    {[caps |-> <<"LeftBumper", "RightBumper">>, target |-> "Guide"],
     [caps |-> <<"South">>, target |-> "Guide"]}

ActivationEvents == Press({"LeftBumper", "South"}) \cup Release({"LeftBumper"})

NextActivation ==
    \/ ProcessEvent({"evdev://event0"}, ActivationEvents)
    \/ SetInterceptMode({"Pass"})
    \/ SetInterceptActivation(ReplacedActivations)
    \/ ReceiveWriteEvent
    \/ Wake
    \/ Advance

SpecActivation == Init /\ [][NextActivation]_vars

(***************************************************************************)
(* C25 as stated: in every state the intercept filter holds no more inputs *)
(* than the activation chord has capabilities.                             *)
(***************************************************************************)
C25_HeldWithinActivation ==
    Len(intercept_active_inputs) <= Len(intercept_activation_caps)


\* The last step handled a ProcessEvent of a button that was new to
\* active_inputs, in the multi-capability regime.
FilteredByMulti ==
    /\ last_cmd'.origin = "extern"
    /\ last_cmd'.type = "ProcessEvent"
    /\ Len(intercept_activation_caps) # 1
    /\ Len(intercept_active_inputs) # 0

\* An unrelated press: a press of a capability outside the activation chord,
\* not yet held, while a partial match is held.
UnrelatedPress ==
    /\ FilteredByMulti
    /\ pressed(last_cmd'.event)
    /\ ~Contains(intercept_activation_caps, as_capability(last_cmd'.event))
    /\ ~Contains(active_inputs, as_capability(last_cmd'.event))

\* The release of a held capability before the chord is complete.
EarlyRelease ==
    /\ FilteredByMulti
    /\ intercept_mode = "Pass"
    /\ ~pressed(last_cmd'.event)
    /\ Contains(intercept_activation_caps, as_capability(last_cmd'.event))
    /\ Contains(intercept_active_inputs, as_capability(last_cmd'.event))
    /\ Contains(active_inputs, as_capability(last_cmd'.event))

\* One task per event, the i-th after 80 * (i - 1) ms.
Staggered(events) ==
    [i \in DOMAIN events |->
        Task(WriteEventCmd(events[i]), ChordStaggerMs * (i - 1))]

RECURSIVE PressAndRelease(_)
PressAndRelease(caps) ==
    IF Len(caps) = 0
    THEN <<>>
    ELSE <<NativeEvent(Head(caps), 1), NativeEvent(Head(caps), 0)>>
             \o PressAndRelease(Tail(caps))

Presses(caps) == [i \in DOMAIN caps |-> NativeEvent(caps[i], 1)]

(***************************************************************************)
(* C26 as stated: when an unrelated press arrives while a partial match is *)
(* held, or a held capability is released before the chord is complete,    *)
(* the filter schedules a press and a release of each held capability in   *)
(* held order, empties intercept_active_inputs, and the arriving event is  *)
(* written to the targets by the same handler.                             *)
(***************************************************************************)
C26_AbandonedReleasesHeld ==
    [][(UnrelatedPress \/ EarlyRelease)
       => /\ spawned' = Staggered(PressAndRelease(intercept_active_inputs))
          /\ intercept_active_inputs' = <<>>
          /\ \E i \in DOMAIN sent' : sent'[i].event = last_cmd'.event]_vars

(***************************************************************************)
(* C26: when an unrelated press arrives while a partial match is held, the *)
(* filter schedules one press, and no release, of each held capability in  *)
(* held order and then of the arriving capability, 80 ms apart, empties    *)
(* intercept_active_inputs and swallows the arriving press: the handler    *)
(* writes nothing to a target.  When a held capability is released before  *)
(* the chord is complete, the filter takes that capability alone out of    *)
(* intercept_active_inputs, schedules its press and, 80 ms later, its      *)
(* release, and swallows the arriving release.                             *)
(***************************************************************************)
C26_AbandonedPressesHeld ==
    [][/\ UnrelatedPress
          => /\ spawned' = Staggered(Presses(Append(intercept_active_inputs,
                                                    as_capability(last_cmd'.event))))
             /\ intercept_active_inputs' = <<>>
             /\ sent' = <<>>
       /\ EarlyRelease
          => /\ spawned' = Staggered(PressAndRelease(
                               <<as_capability(last_cmd'.event)>>))
             /\ intercept_active_inputs' =
                    RemoveAt(intercept_active_inputs,
                             Position(intercept_active_inputs,
                                      as_capability(last_cmd'.event)))
             /\ sent' = <<>>]_vars

\* South was pressed while LeftBumper was held for the chord of both bumpers:
\* the presses of LeftBumper and of South are scheduled and nothing is held.
C26_Witness ==
    /\ Handled("extern", "ProcessEvent")
    /\ last_cmd.event = NativeEvent("South", 1)
    /\ intercept_activation_caps = <<"LeftBumper", "RightBumper">>
    /\ spawned = Staggered(Presses(<<"LeftBumper", "South">>))
    /\ intercept_active_inputs = <<>>
    /\ sent = <<>>


(***************************************************************************)
(* C27 as stated: each mapping recorded in emitted_mappings has at         *)
(* least one of its source capabilities in translatable_active_inputs.     *)
(***************************************************************************)
C27_EmittedMappingHasSourceHeld ==
    \A name \in DOMAIN emitted_mappings :
        \E i \in DOMAIN emitted_mappings[name].source_events :
            Contains(translatable_active_inputs,
                     emitted_mappings[name].source_events[i])


\* The number of events [cap, value] among the first k entries of `log`.
CountOf(log, k, cap, value) ==
    Cardinality({i \in 1..k : log[i] = NativeEvent(cap, value)})

\* At every point of `log` no more releases than presses of `cap` have been
\* received: every release follows a press of its own.
PressedThenReleased(log, cap) ==
    \A k \in DOMAIN log : CountOf(log, k, cap, 0) <= CountOf(log, k, cap, 1)

\* The last delay of the presses of a chord of n targets and the first delay
\* of its releases.
LastPressDelay(n) == ChordStaggerMs * (n - 1)

FirstReleaseDelay(n) == ChordStaggerMs * n

(***************************************************************************)
(* C28: with the profile that maps KeyA to the n = 2 targets KeyB, KeyC,   *)
(* the step that processes a press of KeyA schedules the presses of KeyB   *)
(* and KeyC 0 and 80 ms after it; the step that processes a release of     *)
(* KeyA after that press (both targets are in active_inputs) schedules the *)
(* releases in reverse target order, KeyC then KeyB, 160 and 240 ms after  *)
(* it.  The last press delay, 80(n-1), is smaller than the first release   *)
(* delay, 80n, so every press is due before every release of a later       *)
(* command, and in a run that presses and then releases KeyA every target  *)
(* receives its press before its release.                                  *)
(***************************************************************************)
C28_PressesDueBeforeReleases ==
    /\ [][/\ (/\ ScenarioDLoaded
              /\ last_cmd'.origin = "extern"
              /\ last_cmd'.type = "ProcessEvent"
              /\ last_cmd'.event = NativeEvent("KeyA", 1))
             => /\ sent' = <<>>
                /\ spawned' = Staggered(Presses(<<"KeyB", "KeyC">>))
                /\ spawned'[Len(spawned')].delay = LastPressDelay(2)
          /\ (/\ ScenarioDLoaded
              /\ last_cmd'.origin = "extern"
              /\ last_cmd'.type = "ProcessEvent"
              /\ last_cmd'.event = NativeEvent("KeyA", 0)
              /\ Contains(active_inputs, "KeyB")
              /\ Contains(active_inputs, "KeyC"))
             => /\ sent' = <<>>
                /\ spawned' = ReleaseTasks(<<"KeyC", "KeyB">>, FirstReleaseDelay(2))
                /\ \A i \in DOMAIN spawned' :
                       spawned'[i].delay > LastPressDelay(2)]_vars
    /\ [](\A i \in DOMAIN script :
              (/\ script[i] = LoadCmd("chord.yaml")
               /\ \A j \in 1..(i - 1) : script[j].type # "ProcessEvent"
               /\ \A j \in (i + 1)..Len(script) : script[j].type = "ProcessEvent")
              => /\ PressedThenReleased(normal_log, "KeyB")
                 /\ PressedThenReleased(normal_log, "KeyC"))

\* The release of KeyA found both targets active and scheduled their releases
\* 160 and 240 ms ahead, after the presses had been scheduled at 0 and 80 ms.
C28_Witness ==
    /\ ScenarioDLoaded
    /\ Handled("extern", "ProcessEvent")
    /\ last_cmd.event = NativeEvent("KeyA", 0)
    /\ last_cmd.active_before = <<"KeyB", "KeyC">>
    /\ spawned = ReleaseTasks(<<"KeyC", "KeyB">>, FirstReleaseDelay(2))
    /\ normal_log = <<Key("KeyB", 1), Key("KeyC", 1)>>


(***************************************************************************)
(* C29: in every state each virtual effect id in 0..63 is in ff_effect_ids *)
(* if and only if it has no entry in ff_effect_id_source_map: no id is     *)
(* both free and allocated, and none is lost.                              *)
(***************************************************************************)
C29_FreeIffNotAllocated ==
    \A id \in 0..(EffectIds - 1) :
        id \in ff_effect_ids <=> id \notin DOMAIN ff_effect_id_source_map

\* Effect 0 was erased while effect 1 stayed uploaded: 0 is free again and 1
\* is allocated.
C29_Witness ==
    /\ HandledOutput("FFErase")
    /\ ToI16(last_cmd.arg.event.id) = 0
    /\ DOMAIN last_cmd.effects_before = {0, 1}
    /\ DOMAIN ff_effect_id_source_map = {1}
    /\ ff_effect_ids = {0} \cup 2..(EffectIds - 1)


\* The last step handled an upload of an effect that was known.
HandledKnownUpload ==
    /\ HandledOutput("FFUpload")
    /\ last_cmd.arg.event.id \in DOMAIN last_cmd.effects_before

(***************************************************************************)
(* C30 as stated: an upload of an effect that is already in                *)
(* ff_effect_id_source_map sends UpdateEffect, with the source's own       *)
(* effect id, to every source recorded for the effect, replies             *)
(* Some(virtual_id) to a target that still waits, and leaves ff_effect_ids *)
(* and ff_effect_id_source_map as they were.                               *)
(***************************************************************************)
C30_KnownUploadUpdatesSources ==
    HandledKnownUpload =>
        LET id == last_cmd.arg.event.id
            recorded == last_cmd.effects_before[id]
        IN  /\ out.to_sources = {SourceCommand(source, "UpdateEffect", recorded[source]) :
                                    source \in DOMAIN recorded}
            /\ ReplyAwaited => out.replies = <<Some(id)>>
            /\ ff_effect_ids = last_cmd.pool_before
            /\ ff_effect_id_source_map = last_cmd.effects_before


(***************************************************************************)
(* C31: a force-feedback play event with effect code V makes the handler   *)
(* write, to each source that has an effect id e recorded for V and whose  *)
(* command channel takes the write, exactly one WriteEvent with code e and *)
(* the value of the event; a source with no id recorded for V gets         *)
(* nothing, and when V is unknown no source gets anything.  No reply is    *)
(* sent, ff_effect_ids and ff_effect_id_source_map stay as they are and    *)
(* the handler returns Ok.                                                 *)
(***************************************************************************)
C31_PlayRewrittenPerSource ==
    HandledOutput("FFPlay") =>
        LET V == ToI16(last_cmd.arg.event.id)
            recorded == IF V \in DOMAIN last_cmd.effects_before
                        THEN last_cmd.effects_before[V]
                        ELSE <<>>
            open == DOMAIN recorded \ (closed_sources \cup full_sources)
        IN  /\ \A source \in open :
                   {cmd \in out.to_sources : cmd.source = source}
                       = {WriteFFEvent(source, recorded[source],
                                       last_cmd.arg.event.value)}
            /\ \A cmd \in out.to_sources : cmd.source \in open
            /\ V \notin DOMAIN last_cmd.effects_before => out.to_sources = {}
            /\ out.replies = <<>>
            /\ ~out.err
            /\ ff_effect_ids = last_cmd.pool_before
            /\ ff_effect_id_source_map = last_cmd.effects_before

\* Effect 0 is recorded with id 3 for event0 and id 5 for event1: the play
\* event was written to event0 with code 3 and to event1 with code 5.
C31_Witness ==
    /\ HandledOutput("FFPlay")
    /\ 0 \in DOMAIN last_cmd.effects_before
    /\ last_cmd.effects_before[0] = [source \in Sources |->
                                        IF source = "evdev://event0" THEN 3 ELSE 5]
    /\ out.to_sources = {WriteFFEvent("evdev://event0", 3, 1),
                         WriteFFEvent("evdev://event1", 5, 1)}


(***************************************************************************)
(* C32 as stated: a kind whose creation or attachment the input manager    *)
(* answers with a failure is skipped, so target_devices_queued only holds  *)
(* paths of targets the manager has attached and will announce with        *)
(* AttachTargetDevices.                                                    *)
(***************************************************************************)
C32_QueuedOnlyAttached == target_devices_queued \subseteq attaching


(***************************************************************************)
(* C33 as stated: once an AttachTargetDevices command has been processed,  *)
(* every path it named is in target_devices and none of them is in         *)
(* target_devices_queued.                                                  *)
(***************************************************************************)
C33_AttachedLeaveQueue ==
    [][(last_cmd'.type = "AttachTargetDevices" /\ last_cmd'.origin # "env")
       => /\ (attaching \ attaching') \subseteq target_devices'
          /\ (attaching \ attaching') \cap target_devices_queued' = {}]_vars


(***************************************************************************)
(* C34 as stated: source_devices_used, source_devices and                  *)
(* source_device_paths describe the same set of sources in every state,    *)
(* and once SourceDeviceStopped(id) or SourceDeviceRemoved(id) has been    *)
(* handled, id is in none of the three.                                    *)
(***************************************************************************)
C34_RegistriesAgree ==
    /\ source_devices = Range(source_devices_used)
    /\ Range(source_device_paths) =
           {get_device_path(id) : id \in Range(source_devices_used)}
    /\ HandledSourceGone
       => /\ unwrap(last_cmd.arg) \notin source_devices
          /\ unwrap(last_cmd.arg) \notin Range(source_devices_used)
          /\ get_device_path(unwrap(last_cmd.arg)) \notin Range(source_device_paths)


\* The last step handled a ProcessEvent whose capability the loaded
\* capability map translates.
HandledTranslatable ==
    /\ Handled("extern", "ProcessEvent")
    /\ is_some(capability_map)
    /\ Contains(translatable_capabilities, as_capability(last_cmd.event))

\* The target events of the loaded capability map.
TargetEvents ==
    {unwrap(capability_map).mapping[i].target_event :
         i \in DOMAIN unwrap(capability_map).mapping}

IsTranslated(event) ==
    as_capability(event) \in TargetEvents /\ get_value(event) \in {0, 1}

(***************************************************************************)
(* C35: when a capability map is loaded and the capability of a            *)
(* ProcessEvent is one of translatable_capabilities, the raw event is      *)
(* neither written to a target nor enqueued for handling: everything the   *)
(* command writes or enqueues is a press or a release of a target event of *)
(* a mapping, or the RemoveRecentEvent of such a target event.             *)
(***************************************************************************)
C35_TranslatableNeverRaw ==
    HandledTranslatable
    => /\ as_capability(last_cmd.event) \notin TargetEvents
       /\ \A i \in DOMAIN sent : IsTranslated(sent[i].event)
       /\ \A i \in DOMAIN spawned :
              /\ spawned[i].cmd.type \in {"HandleEvent", "RemoveRecentEvent"}
              /\ as_capability(spawned[i].cmd.event) \in TargetEvents
              /\ spawned[i].cmd.type = "HandleEvent"
                 => IsTranslated(spawned[i].cmd.event)

\* KeyA is pressed while a capability map that translates it is loaded: the
\* press of South is the only event written.
C35_Witness ==
    /\ HandledTranslatable
    /\ last_cmd.event = NativeEvent("KeyA", 1)
    /\ Len(sent) = 1
    /\ sent[1].event = NativeEvent("South", 1)
    /\ sent[1].to = target_devices


(***************************************************************************)
(* C36: a step that is not the handling of a SetInterceptMode command      *)
(* changes intercept_mode only from Pass to Always: in mode None and in    *)
(* mode Always no event processing changes the mode, and Always is left    *)
(* only by a SetInterceptMode command.                                     *)
(***************************************************************************)
C36_FilterOnlyPassToAlways ==
    [][(intercept_mode' # intercept_mode /\ last_cmd'.type # "SetInterceptMode")
       => (intercept_mode = "Pass" /\ intercept_mode' = "Always")]_vars

\* The filter has just switched the mode: a ProcessEvent handled in mode Pass
\* left the mode Always and staggered the target capability.
C36_Witness ==
    /\ Handled("extern", "ProcessEvent")
    /\ last_cmd.mode_before = "Pass"
    /\ intercept_mode = "Always"
    /\ Len(spawned) > 0


\* The capabilities of the translated events whose delayed HandleEvent is
\* still to be handled: the task sleeps, or its command waits in the queue.
DelayedCaps ==
    {as_capability(task.cmd.event) : task \in {x \in Sleeping : x.cmd.type = "HandleEvent"}}
    \cup {as_capability(queue[i].event) : i \in {j \in DOMAIN queue : queue[j].type = "HandleEvent"}}

(***************************************************************************)
(* C37 as stated: translated events of one capability are handled in the   *)
(* order the translator enqueued them, so a ProcessEvent never writes an    *)
(* event of a capability to a target while an earlier translated event of  *)
(* that capability still waits in its delayed HandleEvent.                 *)
(***************************************************************************)
C37_DelayedNotOvertaken ==
    [][(last_cmd'.type = "ProcessEvent" /\ last_cmd'.origin = "extern")
       => \A i \in DOMAIN sent' : as_capability(sent'[i].event) \notin DelayedCaps]_vars


(***************************************************************************)
(* C38 as stated: every upload request of a target that waits for the      *)
(* reply gets exactly one reply, whatever the sources answer and whether   *)
(* or not a source channel fails.                                          *)
(***************************************************************************)
C38_ExactlyOneReply ==
    (HandledOutput("FFUpload") /\ ReplyAwaited) => Len(out.replies) = 1


\* The mapping is the only one of the loaded capability map with its target
\* event.
OnlyMappingOfTarget(mapping) ==
    \A i \in DOMAIN unwrap(capability_map).mapping :
        unwrap(capability_map).mapping[i].target_event = mapping.target_event
            => unwrap(capability_map).mapping[i].name = mapping.name

(***************************************************************************)
(* C39 as stated: the translator enqueues a press of the target event of a *)
(* mapping only when the mapping is not already in emitted_mappings: a     *)
(* ProcessEvent handled while mapping M is in emitted_mappings neither     *)
(* writes nor delays a press of the target event of M (M being the only    *)
(* mapping with that target event).                                        *)
(***************************************************************************)
C39_NoSecondPress ==
    [][(last_cmd'.type = "ProcessEvent" /\ last_cmd'.origin = "extern"
            /\ is_some(capability_map))
       => \A name \in DOMAIN emitted_mappings :
              OnlyMappingOfTarget(emitted_mappings[name])
              => LET press == NativeEvent(emitted_mappings[name].target_event, 1)
                 IN  /\ \A i \in DOMAIN sent' : sent'[i].event # press
                     /\ \A i \in DOMAIN spawned' :
                            spawned'[i].cmd # HandleEventCmd(press)]_vars


(***************************************************************************)
(* SpecJoin: run() from the Stop command to its return, together with the  *)
(* source tasks.  Once the 'main loop is left nothing receives from the    *)
(* command channel, whose capacity is BUFFER_SIZE; the source tasks still  *)
(* in their event loops keep sending events into it, each task ends its    *)
(* loop at some time and then sends SourceDeviceStopped, and run() joins   *)
(* the tasks after the shutdown path.                                      *)
(***************************************************************************)
\* const BUFFER_SIZE: usize = 16384;
BUFFER_SIZE == 16384

\* Bound of the model: the free slots the events of the sources may leave in
\* the command channel.
MaxRoom == 2

JoinSources == {"evdev://event0", "evdev://event1"}

SourceDeviceStoppedCmd(device_id) ==
    [type |-> "SourceDeviceStopped", event |-> NoEvent, device_id |-> device_id]

\* The free slots of the command channel.
Room == BUFFER_SIZE - backlog - Len(queue)

\* The tasks spawned into source_device_tasks.
Spawned == Range(source_device_tasks)

\* The tasks that have run to their end: the final send has completed.
Finished ==
    {id \in ended : \E i \in DOMAIN queue : queue[i] = SourceDeviceStoppedCmd(id)}

Returned == Steps("Return") # {}

\* A step of a task or of the join: the loop is left, the controller's fields
\* stay as they are.
AfterLoop(type) ==
    /\ ~running
    /\ last_cmd' = Cmd("env", type, NoEvent, <<>>)
    /\ sent' = <<>>
    /\ spawned' = <<>>
    /\ out' = NoOut
    /\ UNCHANGED <<fields, running, recording, script, normal_log, dbus_log, timers,
                   closed_targets, closed_sources, full_sources, stalled, attaching>>

\* tx.send(Command::ProcessEvent(..)).await in the tasks that are still in
\* their event loops: the events sent leave `room` slots of the channel free.
SourcesSend(rooms) ==
    /\ Spawned \ ended # {}
    /\ \E room \in rooms :
           /\ room < Room
           /\ backlog' = BUFFER_SIZE - Len(queue) - room
    /\ AfterLoop("SourcesSend")
    /\ UNCHANGED <<queue, shutdown, ended>>

\* source_device.run().await returns in the task of `device_id`.
SourceLoopEnds(ids) ==
    /\ \E device_id \in (ids \cap Spawned) \ ended : ended' = ended \cup {device_id}
    /\ AfterLoop("SourceLoopEnds")
    /\ UNCHANGED <<queue, shutdown, backlog>>

\* tx.send(Command::SourceDeviceStopped(device_id)).await completes when the
\* channel has a free slot, and the task is finished.
SourceSendsStopped(ids) ==
    /\ Room > 0
    /\ \E device_id \in (ids \cap ended) \ Finished :
           queue' = Append(queue, SourceDeviceStoppedCmd(device_id))
    /\ AfterLoop("SourceSendsStopped")
    /\ UNCHANGED <<shutdown, ended, backlog>>

\* while let Some(res) = self.source_device_tasks.join_next().await { res?; }
\* join_next yields a task that has finished.
JoinNext ==
    /\ shutdown # <<>>
    /\ shutdown[Len(shutdown)].op \in {"Join", "Joined"}
    /\ \E device_id \in (Spawned \cap Finished) \ Done("Joined") :
           shutdown' = Append(shutdown, Op("Joined", device_id))
    /\ AfterLoop("JoinNext")
    /\ UNCHANGED <<queue, ended, backlog>>

\* join_next yields None: every task is joined, run() returns Ok(()).
ReturnFromRun ==
    /\ shutdown # <<>>
    /\ shutdown[Len(shutdown)].op \in {"Join", "Joined"}
    /\ Spawned \subseteq Done("Joined")
    /\ shutdown' = Append(shutdown, Op("Return", <<>>))
    /\ AfterLoop("Return")
    /\ UNCHANGED <<queue, ended, backlog>>

InitJoin ==
    \E blocked \in {{}, {"evdev://event1"}} : InitOf(None, None, FALSE, blocked)

NextJoin ==
    \/ Stop
    \/ Shutdown
    \/ SourcesSend(0..MaxRoom)
    \/ SourceLoopEnds(JoinSources)
    \/ SourceSendsStopped(JoinSources)
    \/ JoinNext
    \/ ReturnFromRun

\* run() and every task are scheduled whenever they can go on; that the event
\* loop of every source task ends is the premise of the termination.
SpecJoin ==
    /\ InitJoin
    /\ [][NextJoin]_vars
    /\ WF_vars(Shutdown)
    /\ WF_vars(JoinNext)
    /\ WF_vars(ReturnFromRun)
    /\ \A device_id \in JoinSources :
           /\ WF_vars(SourceLoopEnds({device_id}))
           /\ WF_vars(SourceSendsStopped({device_id}))

(***************************************************************************)
(* C40 as stated: once the 'main loop is left and the event loop of every  *)
(* source task ends, every source task finishes its final                  *)
(* SourceDeviceStopped send, the join completes and run() returns.         *)
(***************************************************************************)
C40_ShutdownTerminates == (~running) ~> Returned

=============================================================================
